---- MODULE Spec2Model ----
(***************************************************************************)
(* The HLS video session subsystem of the UxPlay AirPlay receiver:         *)
(* the session registry raop->airplay_video[], raop->current_video, the    *)
(* airplay_video_t session with its media data store, and the handlers     *)
(* POST /play and POST /action of lib/http_handlers.h.                     *)
(*                                                                         *)
(* Strings are modelled by small integers (0 is the NULL pointer), a       *)
(* master playlist by the list of media URIs create_media_uri_table        *)
(* extracts from it, a media playlist by the total duration                *)
(* analyze_media_playlist computes for it.  assert() failures and NULL     *)
(* dereferences end the process: crashed becomes TRUE and nothing follows. *)
(***************************************************************************)
EXTENDS Integers, Sequences, FiniteSets, TLC

VARIABLES
    airplay_video,   \* raop->airplay_video[MAX_AIRPLAY_VIDEO]
    current_video,   \* raop->current_video
    crashed,         \* the process was aborted by assert() / a NULL dereference
    last,            \* the last request and what its handler did (observation)
    client,          \* behaviour of the client in this run (bound on the inputs)
    budget,          \* requests of each bounded kind made so far (bound)
    born,            \* for each occupied slot, when its session was inserted
                     \* (observation)
    connection_type, \* the type tag httpd keeps for each connection
    requested,       \* for each occupied slot, the media indices FCUP requests
                     \* were sent for since its master playlist was stored
                     \* (observation)
    thread,          \* for each connection thread, the step of http_handler_play
                     \* it is at and the handler's locals
    registry_mutex,  \* the thread that holds the mutex of the registry (0: free)
    logger           \* struct logger_s, and where each thread is in its logger
                     \* operation

vars == <<airplay_video, current_video, crashed, last, client, budget, born,
          connection_type, requested, thread, registry_mutex, logger>>

----------------------------------------------------------------------------
(* Program constants *)

MAX_AIRPLAY_VIDEO == 10
MIN_STORED_AIRPLAY_VIDEO_DURATION_SECONDS == 90

(* Bounds of the model *)

\* new sessions a protocol-conforming client creates in one run
MaxPlaysConforming == 11
\* resumed POST /play requests of a protocol-conforming client in one run
MaxResumesConforming == 1
\* requests an arbitrary client makes in one run
MaxRequests == 5
\* requests of an arbitrary client that are rejected (400) or ignored, in one run
MaxRejects == 1
\* master playlist responses the redelivering client sends unrequested
MaxRedelivered == 1
\* connections open at the same time
MaxConns == 3
\* POST /reverse requests of one run
MaxReverse == 4
\* items of a media data store that is filled in any order
MaxStore == 3
\* languages a master playlist offers
MaxLanguages == 2
\* slices of each language in a master playlist
MaxCopies == 3
\* characters of a master playlist text that is rewritten
MaxText == 4
\* chunks of a condensed media playlist
MaxChunks == 2
\* GET /playback-info and the local HLS requests arrive while the client has
\* made at most this many requests
MaxLocalAfter == 3
\* connection threads that handle POST /play
MaxThreads == 2
\* POST /play requests each connection thread handles
MaxThreadPlays == 1
\* threads that use the logger, and logger operations they call in all
MaxLoggerThreads == 2
MaxLoggerCalls == 3
\* values of FCUP_Response_RequestID the client sends
MaxResponseRequestID == 3
\* entries of the array of PUT /setProperty?selectedMediaArray
MaxOptions == 2

Slots == 0..(MAX_AIRPLAY_VIDEO - 1)

\* the connections httpd serves
Conns == 1..MaxConns

\* the NULL pointer in a registry slot
NULL == [null |-> TRUE]

\* playback uuids: one more than the slots, so that a new one always exists
Uuids == 1..(MAX_AIRPLAY_VIDEO + 1)

\* values of the X-Apple-Session-ID header (0: header absent)
AppleSessionIds(c) == IF c # "arbitrary" THEN {1} ELSE {1, 2}

\* Start-Position-Seconds of a play request (0 also when the key is absent)
StartPositions(c) == IF c # "arbitrary" THEN {0} ELSE {0, 12}

\* positions on_video_playlist_remove returns
RemovePositions(c) == IF c # "arbitrary" THEN {5} ELSE {5, 20}

\* media playlists, each named by the duration analyze_media_playlist finds
MediaPlaylists == {30, 100}

\* the media playlists a client delivers; the redelivering client plays
\* long-form videos only
MediaResponses(c) == IF c = "redelivering" THEN {100} ELSE MediaPlaylists

\* master playlists, as the media URI table extracted from them
MasterPlaylists(c) ==
    IF c # "arbitrary" THEN { <<1>> } ELSE { <<>>, <<1>>, <<1, 2>>, <<1, 1, 2>> }

\* what a read past the end of a zero-length media_data_store may yield
Garbage == {0, 100}

----------------------------------------------------------------------------
(* airplay_video.c *)

\* the playback location every session gets: local_uri_prefix + "/master.m3u8"
LOCAL_MASTER == 1

airplay_video_init ==
    [ apple_session_id        |-> 0,
      playback_uuid           |-> 0,
      uri_prefix              |-> 0,
      playback_location       |-> 0,
      start_position_seconds  |-> 0,
      resume_position_seconds |-> 0,
      FCUP_RequestID          |-> 0,
      language_name           |-> << >>,   \* << >> is NULL
      language_code           |-> << >>,
      lang                    |-> << >>,
      next_uri                |-> 0,
      num_uri                 |-> 0,
      has_store               |-> FALSE,
      media_data_store        |-> << >>,
      master_playlist         |-> << >>,
      \* observation, not program state:
      plays                   |-> 0,   \* on_video_play calls by POST /action since the master
      pending                 |-> 0 ]  \* FCUP requests sent and not yet answered

get_playback_uuid(v) == IF v = NULL THEN 0 ELSE v.playback_uuid

get_duration_outcomes(v) ==
    IF v = NULL \/ ~v.has_store THEN {0}
    ELSE IF v.num_uri = 0 THEN Garbage
    ELSE {v.media_data_store[1].duration}

get_next_FCUP_RequestID_post(v) == v.FCUP_RequestID

get_next_FCUP_RequestID(v) == v.FCUP_RequestID + 1

max_position_swapped(resume_pos, start_pos) ==
    IF resume_pos > start_pos THEN start_pos ELSE resume_pos

max_position(resume_pos, start_pos) ==
    IF resume_pos > start_pos THEN resume_pos ELSE start_pos

----------------------------------------------------------------------------
(* http_handlers.h: the registry *)

get_playlist_by_uuid_from1(av, uuid) ==
    IF \E i \in Slots \ {0} : av[i] # NULL /\ av[i].playback_uuid = uuid
    THEN CHOOSE i \in Slots \ {0} :
            /\ av[i] # NULL /\ av[i].playback_uuid = uuid
            /\ \A j \in Slots \ {0} :
                  j < i => ~(av[j] # NULL /\ av[j].playback_uuid = uuid)
    ELSE -1

get_playlist_by_uuid(av, uuid) ==
    IF \E i \in Slots : av[i] # NULL /\ av[i].playback_uuid = uuid
    THEN CHOOSE i \in Slots :
            /\ av[i] # NULL /\ av[i].playback_uuid = uuid
            /\ \A j \in Slots : j < i => ~(av[j] # NULL /\ av[j].playback_uuid = uuid)
    ELSE -1

Occupied(av) == {i \in Slots : av[i] # NULL}

\* the connection threads, and a thread between two requests
Threads == 1..MaxThreads

\* logger.c: the threads that use the logger, and the levels (logger.h)
LoggerThreads == 1..MaxLoggerThreads

LOGGER_ERR == 3
LOGGER_WARNING == 4
LOGGER_DEBUG == 7

\* a thread that is in no logger operation
LoggerIdle == [op |-> "none", pc |-> "idle", level |-> 0, callback |-> 0,
               ret |-> 0]

\* logger_init (lines 35-47); callback 0 is NULL
logger_init ==
    [ lvl_mutex |-> 0, cb_mutex |-> 0, level |-> LOGGER_WARNING, callback |-> 0,
      at |-> [t \in LoggerThreads |-> LoggerIdle], calls |-> 0 ]

ThreadIdle == [pc |-> "idle", req |-> [kind |-> "none"], id |-> -1,
               was_new |-> FALSE, served |-> 0]

StoredUuids(av) == {av[i].playback_uuid : i \in Occupied(av)}

\* the observation of a handler that did nothing yet
NoEffect(handler, req, cur) ==
    [ handler   |-> handler,
      req       |-> req,
      current_before |-> cur,
      path      |-> "none",
      status    |-> 200,
      slot      |-> -1,
      fcup      |-> << >>,
      on_video_play |-> << >>,
      on_video_playlist_remove |-> << >>,
      conn_reset |-> << >>,
      disconnect |-> FALSE,
      headers   |-> << >>,
      video_reset |-> << >>,
      body      |-> [kind |-> "none"],
      pruned    |-> {},
      evicted   |-> {},
      ret       |-> 0 ]

\* raop_destroy_airplay_video(raop, id): destroys the session in slot id and
\* clears the slot
raop_destroy_airplay_video(av, id) == [av EXCEPT ![id] = NULL]

\* fcup_request(conn, url, session_id, request_id): one POST /event "FCUP
\* Request" written on the reverse channel; slot and index (the media index of
\* the URL, -1 for the master playlist) are recorded with it
fcup_request(eff, slot, index, url, session_id, request_id) ==
    [eff EXCEPT !.fcup = Append(@, [slot |-> slot, index |-> index, url |-> url,
                                   session_id |-> session_id,
                                   request_id |-> request_id])]

on_video_play(eff, location, position) ==
    [eff EXCEPT !.on_video_play = Append(@, [location |-> location,
                                             position |-> position])]

play_error_no_reset(eff) == [eff EXCEPT !.status = 400, !.disconnect = TRUE]

\* the play_error label: 400, disconnect, conn_reset(2)
play_error(eff) ==
    [eff EXCEPT !.status = 400, !.disconnect = TRUE,
                !.conn_reset = Append(@, 2)]

IsAdvertisement_never(duration) == FALSE

IsAdvertisement_always(duration) == TRUE

IsAdvertisement(duration) == duration < MIN_STORED_AIRPLAY_VIDEO_DURATION_SECONDS

\* the slots the pruning loop of POST /play destroys, dur[i] being what
\* get_duration returned for slot i
PrunedSlots(av, dur) == {i \in Occupied(av) : IsAdvertisement(dur[i])}

PruneAdvertisements(av, dur) ==
    [i \in Slots |-> IF i \in PrunedSlots(av, dur)
                     THEN raop_destroy_airplay_video(av, i)[i] ELSE av[i]]

FirstEmptySlot_last(av) ==
    IF \E i \in Slots : av[i] = NULL
    THEN CHOOSE i \in Slots : av[i] = NULL /\ \A j \in Slots : j > i => av[j] # NULL
    ELSE -1

FirstEmptySlot(av) ==
    IF \E i \in Slots : av[i] = NULL
    THEN CHOOSE i \in Slots : av[i] = NULL /\ \A j \in Slots : j < i => av[j] # NULL
    ELSE -1

EvictionSlot_self(id) == id

EvictionSlot_prev(id) == (id + MAX_AIRPLAY_VIDEO - 1) % MAX_AIRPLAY_VIDEO

EvictionSlot(id) == (id + 1) % MAX_AIRPLAY_VIDEO

\* the result of a handler: the registry, current_video, whether the process
\* was aborted, and what the handler did
Result(av, cur, eff) == [av |-> av, cur |-> cur, crashed |-> FALSE, eff |-> eff]

Abort(av, cur, eff) ==
    [av |-> av, cur |-> cur, crashed |-> TRUE, eff |-> [eff EXCEPT !.path = "abort"]]

\* a write through the pointer airplay_video, seen in the registry when slot id
\* still holds that session
StoreVia(av, id, v) == IF av[id] = NULL THEN av ELSE [av EXCEPT ![id] = v]

\* http_handler_play, the resumed session (lines 787-802)
play_existing(av, req, id, eff) ==
    LET v1  == [av[id] EXCEPT !.apple_session_id = req.session_id]
        pos == max_position(v1.resume_position_seconds, v1.start_position_seconds)
        e1  == on_video_play([eff EXCEPT !.path = "resume", !.slot = id],
                             v1.playback_location, pos)
    IN  Result([av EXCEPT ![id] = v1], id, e1)

RegistryFull_never(count) == FALSE

\* line 844: with the new session the registry is full
RegistryFull(count) == count = MAX_AIRPLAY_VIDEO

\* http_handler_play, from the new session's allocation on (lines 833-925)
play_new_at(av, req, id, count, eff) ==
    LET v0   == [airplay_video_init EXCEPT !.apple_session_id = req.session_id,
                                           !.playback_uuid = req.uuid]
        av1  == [av EXCEPT ![id] = v0]
        full == RegistryFull(count + 1)
        next == EvictionSlot(id)
        av2  == IF full THEN [av1 EXCEPT ![next] = NULL] ELSE av1
        e1   == [eff EXCEPT !.slot = id,
                            !.evicted = IF full THEN {next} ELSE {}]
        v1   == [v0 EXCEPT !.start_position_seconds = req.start]
        rid  == get_next_FCUP_RequestID(v1)
        v2   == [v1 EXCEPT !.playback_location = LOCAL_MASTER,
                           !.uri_prefix = req.content_location,
                           !.next_uri = 0,
                           !.FCUP_RequestID = rid,
                           !.pending = @ + 1]
    IN  IF full /\ av1[next] = NULL
          THEN Abort(av1, id, e1)
        ELSE IF req.content_location = 0 \/ ~req.client_proc_name
          THEN Result(av2, id, play_error([e1 EXCEPT !.path = "new_error"]))
        ELSE IF req.content_location < 0
          THEN Result(StoreVia(av2, id, v1), id,
                      play_error([e1 EXCEPT !.path = "new_error"]))
        ELSE Result(StoreVia(av2, id, v2), id,
                    fcup_request([e1 EXCEPT !.path = "new"], id, -1,
                                 [kind |-> "master", ref |-> req.content_location],
                                 req.session_id, rid))

\* http_handler_play, the new session (lines 804-925)
play_new(av, req, dur, eff) ==
    LET pruned == PruneAdvertisements(av, dur)
        count  == Cardinality(Occupied(pruned))
        id     == FirstEmptySlot(pruned)
        e1     == [eff EXCEPT !.pruned = PrunedSlots(av, dur)]
    IN  IF ~(count < MAX_AIRPLAY_VIDEO) \/ ~(id >= 0)
          THEN Abort(pruned, -1, e1)
          ELSE play_new_at(pruned, req, id, count, e1)

\* POST /play (lines 728-936); cur is current_video, dur[i] what get_duration
\* returns for slot i
http_handler_play(av, cur, req, dur) ==
    LET eff == NoEffect("play", req, cur)
        id  == get_playlist_by_uuid(av, req.uuid)
    IN  IF req.session_id = 0 \/ ~req.binary_plist \/ req.uuid = 0
          THEN Result(av, cur, play_error([eff EXCEPT !.path = "early_error"]))
        ELSE IF id >= 0
          THEN play_existing(av, req, id, eff)
        ELSE play_new(av, req, dur, eff)

----------------------------------------------------------------------------
(* http_handlers.h: POST /action *)

\* create_media_data_store: one item for each URI of the table
create_media_data_store(v, uri_list) ==
    [v EXCEPT !.media_data_store =
                  [k \in 1..Len(uri_list) |->
                      [uri |-> uri_list[k], playlist |-> 0, num |-> k - 1,
                       duration |-> 0]],
              !.has_store = TRUE,
              !.num_uri = Len(uri_list)]

EarlierSameUri_any(store, num) == 0..(num - 1)

EarlierSameUri_none(store, num) == {}

\* the items before num (C index) that have the URI of item num
EarlierSameUri(store, num) ==
    {i \in 0..(num - 1) : store[i + 1].uri = store[num + 1].uri}

\* store_media_playlist: ret is -1 (out of range), -2 (already stored),
\* 1 (duplicate), 0 (stored); abort when the assertion on the duplicate fails
store_media_playlist(v, media_playlist, duration, num) ==
    LET store == v.media_data_store
    IN  IF num < 0 \/ num >= v.num_uri
          THEN [ret |-> -1, abort |-> FALSE, v |-> v]
        ELSE IF store[num + 1].playlist # 0
          THEN [ret |-> -2, abort |-> FALSE, v |-> v]
        ELSE IF EarlierSameUri(store, num) # {}
          THEN LET i == CHOOSE j \in EarlierSameUri(store, num) :
                            \A k \in EarlierSameUri(store, num) : j <= k
               IN  IF store[i + 1].playlist # media_playlist
                     THEN [ret |-> 1, abort |-> TRUE, v |-> v]
                     ELSE [ret |-> 1, abort |-> FALSE,
                           v |-> [v EXCEPT !.media_data_store[num + 1].num = i]]
        ELSE [ret |-> 0, abort |-> FALSE,
              v |-> [v EXCEPT !.media_data_store[num + 1].playlist = media_playlist,
                              !.media_data_store[num + 1].duration = duration]]

\* analyze_media_playlist: the sum of the #EXTINF durations of the playlist
analyze_media_playlist(playlist) == playlist

\* the index a delivered media playlist is stored at (lines 679-680)
MediaIndex_next(v) == v.next_uri

MediaIndex(v) == v.next_uri - 1

\* the post_action_error label
post_action_error(eff) == [eff EXCEPT !.status = 400, !.path = "error"]

action_next_repeat(av, cur, v, eff) ==
    IF v.next_uri < v.num_uri
      THEN LET rid == get_next_FCUP_RequestID(v)
               v1  == [v EXCEPT !.FCUP_RequestID = rid,
                                !.pending = @ + 1]
           IN  Result([av EXCEPT ![cur] = v1], cur,
                      fcup_request(eff, cur, v.next_uri,
                                   [kind |-> "media",
                                    ref  |-> v.media_data_store[v.next_uri + 1].uri],
                                   v.apple_session_id, rid))
      ELSE Result([av EXCEPT ![cur] = [v EXCEPT !.plays = @ + 1]],
                  cur,
                  on_video_play(eff, v.playback_location, v.start_position_seconds))

action_next_rewind(av, cur, v, eff) ==
    IF v.next_uri < v.num_uri
      THEN LET rid == get_next_FCUP_RequestID(v)
               v1  == [v EXCEPT !.FCUP_RequestID = rid,
                                !.next_uri = @ + 1,
                                !.pending = @ + 1]
           IN  Result([av EXCEPT ![cur] = v1], cur,
                      fcup_request(eff, cur, v.next_uri,
                                   [kind |-> "media",
                                    ref  |-> v.media_data_store[v.next_uri + 1].uri],
                                   v.apple_session_id, rid))
      ELSE Result([av EXCEPT ![cur] = [v EXCEPT !.plays = @ + 1, !.next_uri = 0]],
                  cur,
                  on_video_play(eff, v.playback_location, v.start_position_seconds))

action_next_silent(av, cur, v, eff) == Result([av EXCEPT ![cur] = v], cur, eff)

\* lines 693-704: the next FCUP request, or on_video_play
action_next(av, cur, v, eff) ==
    IF v.next_uri < v.num_uri
      THEN LET rid == get_next_FCUP_RequestID(v)
               v1  == [v EXCEPT !.FCUP_RequestID = rid,
                                !.next_uri = @ + 1,
                                !.pending = @ + 1]
           IN  Result([av EXCEPT ![cur] = v1], cur,
                      fcup_request(eff, cur, v.next_uri,
                                   [kind |-> "media",
                                    ref  |-> v.media_data_store[v.next_uri + 1].uri],
                                   v.apple_session_id, rid))
      ELSE Result([av EXCEPT ![cur] = [v EXCEPT !.plays = @ + 1]],
                  cur,
                  on_video_play(eff, v.playback_location, v.start_position_seconds))

\* lines 582-704: type unhandledURLResponse
action_response(av, cur, req, eff) ==
    LET v0 == [av[cur] EXCEPT !.pending = IF @ > 0 THEN @ - 1 ELSE 0]
        e0 == [eff EXCEPT !.slot = cur]
    IN  IF req.url = "none" \/ ~req.has_data
          THEN Result(av, cur, post_action_error(eff))
        ELSE IF req.url = "master"
          THEN IF v0.uri_prefix = 0
                 THEN Abort(av, cur, eff)
                 ELSE LET v1 == [create_media_data_store(v0, req.data) EXCEPT
                                    !.master_playlist = <<req.data>>,
                                    !.next_uri = 0,
                                    !.plays = 0]
                      IN  action_next(av, cur, v1, [e0 EXCEPT !.path = "master"])
        ELSE LET r == store_media_playlist(v0, req.data,
                                           analyze_media_playlist(req.data),
                                           MediaIndex(v0))
             IN  IF r.abort
                   THEN Abort(av, cur, eff)
                   ELSE action_next(av, cur, r.v,
                                    [e0 EXCEPT !.path = "media", !.ret = r.ret])

RemoveMatches_stored(id, cur) == id >= 0

RemoveMatches_unknown(id, cur) == id = cur \/ id < 0

\* line 546: the removed uuid is that of the current session
RemoveMatches(id, cur) == id = cur

\* lines 536-556: type playlistRemove
action_playlist_remove(av, cur, req, position, eff) ==
    IF ~req.item THEN Result(av, cur, post_action_error(eff))
    ELSE IF req.uuid = 0 THEN Abort(av, cur, eff)
    ELSE LET id == get_playlist_by_uuid(av, req.uuid)
         IN  IF RemoveMatches(id, cur)
               THEN Result([av EXCEPT ![cur].resume_position_seconds = position],
                           -1,
                           [eff EXCEPT !.path = "remove", !.slot = cur,
                                       !.on_video_playlist_remove = Append(@, position)])
               ELSE Result(av, cur, [eff EXCEPT !.path = "remove_other"])

SessionIdAccepted_present(session_id, apple_session_id) == session_id # 0

\* lines 479-489: the X-Apple-Session-ID header is present (0 is no header) and
\* strcmp finds it equal to the session's apple_session_id
SessionIdAccepted(session_id, apple_session_id) ==
    session_id # 0 /\ session_id = apple_session_id

\* POST /action (lines 465-721); position is what on_video_playlist_remove
\* returns when it is called
http_handler_action(av, cur, req, position) ==
    LET eff == NoEffect("action", req, cur)
    IN  IF cur < 0 \/ av[cur] = NULL
          THEN Abort(av, cur, eff)
        ELSE IF ~SessionIdAccepted(req.session_id, av[cur].apple_session_id)
          THEN Result(av, cur, post_action_error(eff))
        ELSE IF ~req.binary_plist \/ req.type = "" \/ ~req.params
          THEN Result(av, cur, post_action_error(eff))
        ELSE IF req.type = "playlistRemove"
          THEN action_playlist_remove(av, cur, req, position, eff)
        ELSE IF req.type = "playlistInsert"
          THEN IF ~req.item THEN Result(av, cur, post_action_error(eff))
                            ELSE Result(av, cur, [eff EXCEPT !.path = "insert"])
        ELSE IF req.type = "unhandledURLResponse"
          THEN action_response(av, cur, req, eff)
        ELSE Result(av, cur, [eff EXCEPT !.path = "unknown"])

----------------------------------------------------------------------------
(* http_handlers.h: POST /reverse *)

\* httpd_set_connection_type(httpd, conn, type): tags the connection
httpd_set_connection_type(types, conn, type) == [types EXCEPT ![conn] = type]

\* httpd_count_connection_type(httpd, type): the connections that have the tag
httpd_count_connection_type(types, type) ==
    Cardinality({c \in Conns : types[c] = type})

\* line 447: this is the only PTTH connection
SinglePTTH(type_PTTH) == type_PTTH = 1

\* POST /reverse on connection conn (lines 429-458); the response is left as
\* the caller initialised it unless the handler sets it
http_handler_reverse(types, cur, conn) ==
    LET eff       == [NoEffect("reverse", [kind |-> "reverse", conn |-> conn], cur)
                         EXCEPT !.slot = cur]
        types1    == httpd_set_connection_type(types, conn, "PTTH")
        type_PTTH == httpd_count_connection_type(types1, "PTTH")
    IN  [ types |-> types1,
          eff   |-> IF SinglePTTH(type_PTTH)
                      THEN [eff EXCEPT !.path = "upgrade", !.status = 101,
                                       !.headers = << <<"Connection", "Upgrade">>,
                                                      <<"Upgrade", "PTTH/1.0">> >>]
                      ELSE [eff EXCEPT !.path = "forbidden"] ]

----------------------------------------------------------------------------
(* The client's requests *)

\* a playback uuid that no stored session has; uuids are only ever compared
\* for equality, so the least one stands for them all
NewUuid(av) == CHOOSE u \in Uuids : u \notin StoredUuids(av) /\
                   \A w \in Uuids : w < u => w \in StoredUuids(av)

WellFormedPlays(c, uuids) ==
    [ kind : {"play"}, session_id : AppleSessionIds(c), binary_plist : {TRUE},
      uuid : uuids, content_location : {1}, client_proc_name : {TRUE},
      start : StartPositions(c) ]

\* play requests with one defect each
MalformedPlays(c, uuids) ==
    LET base == [ kind |-> "play", session_id |-> 1, binary_plist |-> TRUE,
                  uuid |-> 0, content_location |-> 1, client_proc_name |-> TRUE,
                  start |-> 12 ]
    IN  UNION { { [b EXCEPT !.session_id = 0],
                  [b EXCEPT !.binary_plist = FALSE],
                  [b EXCEPT !.uuid = 0],
                  [b EXCEPT !.content_location = 0],
                  [b EXCEPT !.content_location = -1],
                  [b EXCEPT !.client_proc_name = FALSE] }
                : b \in {[base EXCEPT !.uuid = u] : u \in uuids} }

\* the values get_duration may return for the stored sessions
DurationReads(av) ==
    LET G == {i \in Slots : Cardinality(get_duration_outcomes(av[i])) > 1}
    IN  { [i \in Slots |-> IF i \in G THEN g[i]
                           ELSE CHOOSE d \in get_duration_outcomes(av[i]) : TRUE]
          : g \in [G -> Garbage] }

\* the number of requests made so far
Clock == budget.plays + budget.requests

Handled(r) ==
    /\ airplay_video' = r.av
    /\ current_video' = r.cur
    /\ crashed' = r.crashed
    /\ last' = r.eff
    /\ UNCHANGED <<connection_type, registry_mutex, logger>>
    /\ requested' =
          [i \in Slots |->
              IF r.av[i] = NULL THEN {}
              ELSE LET e     == r.eff
                       fresh == /\ i = e.slot
                                /\ \/ e.handler = "play"
                                      /\ e.path \in {"new", "new_error"}
                                   \/ e.handler = "action" /\ e.path = "master"
                       sent  == {e.fcup[k].index : k \in
                                   {n \in DOMAIN e.fcup :
                                       /\ e.fcup[n].slot = i
                                       /\ e.fcup[n].index >= 0}}
                   IN  (IF fresh THEN {} ELSE requested[i]) \cup sent]
    /\ born' = [i \in Slots |->
                  IF r.av[i] = NULL THEN 0
                  ELSE IF r.eff.handler = "play" /\ r.eff.path \in {"new", "new_error"}
                          /\ i = r.eff.slot
                    THEN Clock + 1
                  ELSE born[i]]

\* the bound on the requests of one run
MayPlay ==
    IF client # "arbitrary" THEN budget.plays < MaxPlaysConforming
                             ELSE budget.requests < MaxRequests

\* the conforming client resumes a stored session once the registry has had
\* the plays that fill it
MayResume ==
    IF client # "arbitrary" THEN /\ budget.resumes < MaxResumesConforming
                                  /\ budget.plays >= MAX_AIRPLAY_VIDEO - 1
                             ELSE budget.requests < MaxRequests

MayAct == client = "arbitrary" => budget.requests < MaxRequests

MayErr == client = "arbitrary" /\ budget.requests < MaxRequests
             /\ budget.rejects < MaxRejects

Count(kind) ==
    budget' = [budget EXCEPT
                 ![kind] = IF (client # "arbitrary" /\ kind # "requests")
                              \/ kind = "rejects"
                           THEN @ + 1 ELSE @,
                 !.requests = IF client = "arbitrary" THEN @ + 1 ELSE @]

\* POST /play for a playback uuid that is not stored
PlayNew ==
    /\ ~crashed
    /\ MayPlay
    /\ \E req \in WellFormedPlays(client, {NewUuid(airplay_video)}),
          dur \in DurationReads(airplay_video) :
          Handled(http_handler_play(airplay_video, current_video, req, dur))
    /\ Count("plays")
    /\ UNCHANGED <<client, thread>>

\* the sessions the client may ask to resume: the conforming client returns to
\* another stored session when the current one has been fetched, the
\* redelivering client to the one in the lowest slot
Resumable(c, av, cur) ==
    IF c # "arbitrary"
      THEN IF cur \in Occupied(av) /\ av[cur].pending = 0
             THEN IF c = "redelivering"
                    THEN \* the session in the lowest slot
                         {av[i].playback_uuid :
                            i \in {k \in Occupied(av) \ {cur} :
                                      \A j \in Occupied(av) \ {cur} : k <= j}}
                    ELSE StoredUuids(av) \ {av[cur].playback_uuid}
             ELSE {}
      ELSE StoredUuids(av)

\* POST /play for the playback uuid of a stored session
PlayResume ==
    /\ ~crashed
    /\ MayResume
    /\ \E req \in WellFormedPlays(client, Resumable(client, airplay_video,
                                                     current_video)),
          dur \in DurationReads(airplay_video) :
          Handled(http_handler_play(airplay_video, current_video, req, dur))
    /\ Count("resumes")
    /\ UNCHANGED <<client, thread>>

\* a POST /play that is answered 400
PlayRejected ==
    /\ ~crashed
    /\ MayErr
    /\ \E req \in MalformedPlays(client, StoredUuids(airplay_video)
                                          \cup {NewUuid(airplay_video)}),
          dur \in DurationReads(airplay_video) :
          Handled(http_handler_play(airplay_video, current_video, req, dur))
    /\ Count("rejects")
    /\ UNCHANGED <<client, thread>>

\* the client's answer to the FCUP request a session is waiting for
ExpectedUrl(v) == IF v.has_store THEN "media" ELSE "master"

ResponseData(c, url) == IF url = "master" THEN MasterPlaylists(c) ELSE MediaResponses(c)

ActionBase(session_id, type) ==
    [ kind |-> "action", session_id |-> session_id, binary_plist |-> TRUE,
      type |-> type, params |-> TRUE, item |-> FALSE, uuid |-> 0,
      url |-> "none", has_data |-> FALSE, data |-> 0 ]

\* action requests with one defect each
MalformedActions(v) ==
    LET sid  == v.apple_session_id
        resp == [ActionBase(sid, "unhandledURLResponse") EXCEPT
                    !.url = "media", !.has_data = TRUE, !.data = 30]
    IN  { [resp EXCEPT !.session_id = 0],
          [resp EXCEPT !.binary_plist = FALSE],
          [resp EXCEPT !.type = ""],
          [resp EXCEPT !.params = FALSE],
          [resp EXCEPT !.url = "none"],
          [resp EXCEPT !.has_data = FALSE],
          ActionBase(sid, "playlistRemove"),
          ActionBase(sid, "playlistInsert") }

\* POST /action when there is no current session: an FCUP response that was
\* in flight when the session was removed
ActionNoCurrent ==
    /\ ~crashed
    /\ MayErr
    /\ current_video < 0
    /\ Handled(http_handler_action(airplay_video, current_video,
                                   [ActionBase(1, "unhandledURLResponse") EXCEPT
                                       !.url = "media", !.has_data = TRUE,
                                       !.data = 30],
                                   0))
    /\ Count("rejects")
    /\ UNCHANGED <<client, thread>>

\* POST /action, type unhandledURLResponse
ActionResponse ==
    /\ ~crashed
    /\ MayAct
    /\ current_video >= 0
    /\ client # "arbitrary" => airplay_video[current_video].pending > 0
    /\ \E u \in (IF client # "arbitrary"
                 THEN {ExpectedUrl(airplay_video[current_video])}
                 ELSE {"master", "media"}) :
       \E d \in ResponseData(client, u) :
          LET req == [ActionBase(airplay_video[current_video].apple_session_id,
                                 "unhandledURLResponse") EXCEPT
                         !.url = u, !.has_data = TRUE, !.data = d]
          IN  Handled(http_handler_action(airplay_video, current_video, req, 0))
    /\ Count("requests")
    /\ UNCHANGED <<client, thread>>

\* POST /action, type unhandledURLResponse, delivering the master playlist
\* again to a session that was just resumed and has no FCUP request outstanding
ActionRedelivered ==
    /\ ~crashed
    /\ client = "redelivering"
    /\ budget.redelivered < MaxRedelivered
    /\ last.handler = "play" /\ last.path = "resume"
    /\ current_video >= 0
    /\ airplay_video[current_video].has_store
    /\ airplay_video[current_video].pending = 0
    /\ \E d \in ResponseData(client, "master") :
          LET req == [ActionBase(airplay_video[current_video].apple_session_id,
                                 "unhandledURLResponse") EXCEPT
                         !.url = "master", !.has_data = TRUE, !.data = d]
          IN  Handled(http_handler_action(airplay_video, current_video, req, 0))
    /\ Count("redelivered")
    /\ UNCHANGED <<client, thread>>

\* POST /action, type playlistRemove
ActionPlaylistRemove ==
    /\ ~crashed
    /\ client = "arbitrary"
    /\ MayAct
    /\ current_video >= 0
    /\ \E uuid \in StoredUuids(airplay_video) \cup {NewUuid(airplay_video)},
          position \in RemovePositions(client) :
          LET req == [ActionBase(airplay_video[current_video].apple_session_id,
                                 "playlistRemove") EXCEPT !.item = TRUE, !.uuid = uuid]
          IN  Handled(http_handler_action(airplay_video, current_video, req, position))
    /\ Count("requests")
    /\ UNCHANGED <<client, thread>>

\* POST /action, type playlistInsert or a type the handler does not know
ActionIgnored ==
    /\ ~crashed
    /\ MayErr
    /\ current_video >= 0
    /\ \E type \in {"playlistInsert", "other"} :
          LET req == [ActionBase(airplay_video[current_video].apple_session_id, type)
                         EXCEPT !.item = TRUE, !.uuid = 1]
          IN  Handled(http_handler_action(airplay_video, current_video, req, 0))
    /\ Count("rejects")
    /\ UNCHANGED <<client, thread>>

\* a POST /action that is answered 400, or that aborts the process
ActionRejected ==
    /\ ~crashed
    /\ MayErr
    /\ current_video >= 0
    /\ \E req \in MalformedActions(airplay_video[current_video])
                  \cup {[ActionBase(airplay_video[current_video].apple_session_id,
                                    "playlistRemove") EXCEPT !.item = TRUE],
                        [ActionBase(3 - airplay_video[current_video].apple_session_id,
                                    "unhandledURLResponse") EXCEPT
                            !.url = "media", !.has_data = TRUE, !.data = 30]} :
          Handled(http_handler_action(airplay_video, current_video, req, 0))
    /\ Count("rejects")
    /\ UNCHANGED <<client, thread>>

Init ==
    /\ airplay_video = [i \in Slots |-> NULL]
    /\ current_video = -1
    /\ crashed = FALSE
    /\ last = NoEffect("none", [kind |-> "none"], -1)
    /\ client \in {"conforming", "redelivering", "arbitrary"}
    /\ budget = [plays |-> 0, resumes |-> 0, rejects |-> 0, requests |-> 0,
                 redelivered |-> 0, reverse |-> 0]
    /\ born = [i \in Slots |-> 0]
    /\ connection_type = [c \in Conns |-> "AIRPLAY"]
    /\ requested = [i \in Slots |-> {}]
    /\ thread = [t \in Threads |-> ThreadIdle]
    /\ registry_mutex = 0
    /\ logger = logger_init

Next ==
    \/ PlayNew
    \/ PlayResume
    \/ PlayRejected
    \/ ActionNoCurrent
    \/ ActionResponse
    \/ ActionRedelivered
    \/ ActionPlaylistRemove
    \/ ActionIgnored
    \/ ActionRejected

Spec == Init /\ [][Next]_vars

\* POST /reverse on one of the connections
Reverse ==
    /\ ~crashed
    /\ budget.reverse < MaxReverse
    /\ \E conn \in Conns :
          LET r == http_handler_reverse(connection_type, current_video, conn)
          IN  /\ connection_type' = r.types
              /\ last' = r.eff
    /\ budget' = [budget EXCEPT !.reverse = @ + 1]
    /\ UNCHANGED <<airplay_video, current_video, crashed, client, born,
                   requested, thread, registry_mutex, logger>>

\* the connections and their upgrades to reverse HTTP, before any POST /play
NextReverse == Reverse

SpecReverse == Init /\ [][NextReverse]_vars

----------------------------------------------------------------------------
(* Strings as sequences of characters *)

\* t occurs in s at position k (from 1)
OccursAt(s, t, k) ==
    /\ k + Len(t) - 1 <= Len(s)
    /\ \A j \in 1..Len(t) : s[k + j - 1] = t[j]

\* strstr(s, t): the position (from 1) of the first occurrence of t in s,
\* 0 (NULL) when there is none
strstr(s, t) ==
    IF \E k \in 1..(Len(s) + 1) : OccursAt(s, t, k)
      THEN CHOOSE k \in 1..(Len(s) + 1) :
              /\ OccursAt(s, t, k)
              /\ \A j \in 1..(k - 1) : ~OccursAt(s, t, j)
      ELSE 0

----------------------------------------------------------------------------
(* airplay_video.c: the media data store, filled in any order *)

\* the text of the media URIs 1 and 2
UriText(uri) == IF uri = 1 THEN <<"/", "a">> ELSE <<"/", "b">>

\* the URI tables a media data store is made from
UriLists ==
    UNION {[1..n -> {1, 2}] : n \in 1..MaxStore}

\* get_media_playlist (lines 649-662): the playlist of the first item whose
\* uri contains the given text, through the item's num; 0 is NULL
get_media_playlist(v, uri) ==
    LET store   == v.media_data_store
        matches == {i \in 0..(v.num_uri - 1) :
                        strstr(UriText(store[i + 1].uri), uri) # 0}
    IN  IF ~v.has_store \/ matches = {} THEN 0
        ELSE LET i == CHOOSE j \in matches : \A k \in matches : j <= k
             IN  store[store[i + 1].num + 1].playlist

InitStore ==
    /\ \E uri_list \in UriLists :
          airplay_video =
              [i \in Slots |->
                  IF i = 0
                    THEN create_media_data_store(airplay_video_init, uri_list)
                    ELSE NULL]
    /\ current_video = 0
    /\ crashed = FALSE
    /\ last = NoEffect("none", [kind |-> "none"], -1)
    /\ client = "arbitrary"
    /\ budget = [plays |-> 0, resumes |-> 0, rejects |-> 0, requests |-> 0,
                 redelivered |-> 0, reverse |-> 0]
    /\ born = [i \in Slots |-> 0]
    /\ connection_type = [c \in Conns |-> "AIRPLAY"]
    /\ requested = [i \in Slots |-> {}]
    /\ thread = [t \in Threads |-> ThreadIdle]
    /\ registry_mutex = 0
    /\ logger = logger_init

\* one call store_media_playlist(airplay_video, media_playlist, ..., num)
StoreMedia ==
    /\ ~crashed
    /\ \E num \in -1..MaxStore, media_playlist \in MediaPlaylists :
          LET r == store_media_playlist(airplay_video[0], media_playlist,
                                        analyze_media_playlist(media_playlist),
                                        num)
              e == NoEffect("store_media_playlist",
                            [kind |-> "store", num |-> num,
                             media_playlist |-> media_playlist], 0)
          IN  /\ airplay_video' = [airplay_video EXCEPT ![0] = r.v]
              /\ crashed' = r.abort
              /\ last' = [e EXCEPT !.ret = r.ret,
                                   !.path = IF r.abort THEN "abort" ELSE "returned"]
    /\ UNCHANGED <<current_video, client, budget, born, connection_type,
                   requested, thread, registry_mutex, logger>>

NextStore == StoreMedia

SpecStore == InitStore /\ [][NextStore]_vars

----------------------------------------------------------------------------
(* airplay_video.c: the audio language of a master playlist *)

\* A master playlist is the text before the first language slice (prelude),
\* the language slices in the order of the text, each with the LANGUAGE code,
\* the NAME and the DEFAULT mark parsed from it, and the text after the last
\* slice (tail).  Codes, names and the preference list are sequences of
\* characters.

LanguageCodes == { <<"e", "n">>, <<"f", "r">>, <<"e", "n", "U">> }

NameOfCode(code) ==
    IF code = <<"e", "n">> THEN <<"E">>
    ELSE IF code = <<"f", "r">> THEN <<"F">> ELSE <<"U">>

\* the language_name a session has when a master playlist arrives
StoredNames == { << >>, <<"E">>, <<"F">>, <<"X">> }

\* the -lang preference lists
PreferenceLists ==
    { << >>, <<"f", "r">>, <<"e", "n", ":", "f", "r">>,
      <<"f", "r", ":", "e", "n">>, <<"d", "e">>, <<"d", "e", ":", "f", "r">> }

\* the offered languages, in the order of the text
OfferedLanguages ==
    UNION {{f \in [1..n -> LanguageCodes] :
                \A i, j \in 1..n : i # j => f[i] # f[j]} : n \in 1..MaxLanguages}

\* a master playlist with the languages of offered, copies slices of each
\* (the languages repeat in the same order), and the slices of language
\* number default marked DEFAULT=YES (none when default is 0)
MasterOf(offered, copies, default) ==
    [ prelude |-> "prelude",
      slices  |-> [k \in 1..(Len(offered) * copies) |->
                      LET i == ((k - 1) % Len(offered)) + 1
                      IN  [ code       |-> offered[i],
                            name       |-> NameOfCode(offered[i]),
                            is_default |-> (i = default) ]],
      tail    |-> "tail" ]

LanguageMasters ==
    { [prelude |-> "prelude", slices |-> << >>, tail |-> "tail"] } \cup
    { MasterOf(offered, copies, default) :
        offered \in OfferedLanguages, copies \in 1..MaxCopies,
        default \in 0..MaxLanguages }

\* the loop of lines 395-400 that counts the slices with the code of the first
CopiesRange_all(count) == 1..count

CopiesRange(count) == 1..(count - 1)

\* master_playlist_process_language (lines 311-413): none when there is no
\* language slice; abort on the division by zero copies and on the assertions
master_playlist_process_language(master) ==
    LET languages == master.slices
        count     == Len(languages)
        copies    == Cardinality({i \in CopiesRange(count) :
                                     languages[i].code = languages[1].code})
    IN  IF count = 0 THEN [none |-> TRUE, abort |-> FALSE, language_count |-> 0]
        ELSE IF copies = 0
          THEN [none |-> FALSE, abort |-> TRUE, language_count |-> 0]
        ELSE LET language_count == count \div copies
             IN  [ none  |-> FALSE,
                   abort |-> \/ count # language_count * copies
                             \/ \E i \in 1..count :
                                   /\ i - language_count > 0
                                   /\ languages[i].code
                                         # languages[i - language_count].code,
                   language_count |-> language_count ]

\* the character of s at position k (from 1), "" (NUL) past the end
CharAt(s, k) == IF k \in 1..Len(s) THEN s[k] ELSE ""

\* !strncmp(code, ptrc, 2), ptrc pointing at position pos of lang
strncmp2_equal(code, lang, pos) ==
    /\ CharAt(code, 1) = CharAt(lang, pos)
    /\ CharAt(code, 1) = "" \/ CharAt(code, 2) = CharAt(lang, pos + 1)

\* strchr(ptrc, ':'): the position of the first colon of lang from pos on, 0
\* when there is none
strchr_colon(lang, pos) ==
    IF \E k \in pos..Len(lang) : lang[k] = ":"
      THEN CHOOSE k \in pos..Len(lang) :
              lang[k] = ":" /\ \A j \in pos..(k - 1) : lang[j] # ":"
      ELSE 0

FirstOf_last(S) == CHOOSE i \in S : \A j \in S : j <= i

\* the first index of a nonempty set of indices
FirstOf(S) == CHOOSE i \in S : \A j \in S : i <= j

\* lines 447-470: the language (index) chosen from the preference list lang,
\* ptrc at position pos; 0 when no token of the list matches
RECURSIVE PreferredLanguage(_, _, _, _)
PreferredLanguage(languages, language_count, lang, pos) ==
    LET matching == {i \in 1..language_count :
                        strncmp2_equal(languages[i].code, lang, pos)}
        colon    == strchr_colon(lang, pos)
    IN  IF matching # {} THEN FirstOf(matching)
        ELSE IF colon = 0 THEN 0
        ELSE IF Len(lang) - colon < 2 THEN 0
        ELSE PreferredLanguage(languages, language_count, lang, colon + 1)

\* lines 434-445: the index i_default, -1 when the loop never sets it
DefaultLanguage(languages, language_count, language_name) ==
    LET found == {i \in 1..language_count :
                     IF language_name # << >>
                       THEN languages[i].name = language_name
                       ELSE languages[i].is_default}
    IN  IF found = {} THEN -1
        ELSE CHOOSE i \in found : \A j \in found : j <= i

\* select_master_playlist_language (lines 415-524) for session v: the new
\* master playlist, the session with the stored choice, and how it was chosen
select_master_playlist_language(v, master) ==
    LET p         == master_playlist_process_language(master)
        languages == master.slices
        i_default == DefaultLanguage(languages, p.language_count, v.language_name)
        preferred == PreferredLanguage(languages, p.language_count, v.lang, 1)
        chosen    == IF preferred # 0 THEN preferred ELSE i_default
        code      == languages[chosen].code
        name      == languages[chosen].name
    IN  IF p.none
          THEN [abort |-> FALSE, path |-> "unchanged", v |-> v, out |-> master]
        ELSE IF p.abort \/ i_default < 0
          THEN [abort |-> TRUE, path |-> "abort", v |-> v, out |-> master]
        ELSE [ abort |-> FALSE,
               path  |-> IF preferred # 0 THEN "preference"
                         ELSE IF v.language_name # << >> THEN "stored"
                         ELSE "default",
               v     |-> [v EXCEPT !.language_name = name,
                                   !.language_code = code],
               out   |-> [master EXCEPT !.slices =
                             SelectSeq(languages, LAMBDA l : l.code = code)] ]

InitLanguage ==
    /\ \E language_name \in StoredNames, lang \in PreferenceLists :
          airplay_video =
              [i \in Slots |->
                  IF i = 0
                    THEN [airplay_video_init EXCEPT
                             !.language_name = language_name, !.lang = lang]
                    ELSE NULL]
    /\ current_video = 0
    /\ crashed = FALSE
    /\ last = NoEffect("none", [kind |-> "none"], -1)
    /\ client = "arbitrary"
    /\ budget = [plays |-> 0, resumes |-> 0, rejects |-> 0, requests |-> 0,
                 redelivered |-> 0, reverse |-> 0]
    /\ born = [i \in Slots |-> 0]
    /\ connection_type = [c \in Conns |-> "AIRPLAY"]
    /\ requested = [i \in Slots |-> {}]
    /\ thread = [t \in Threads |-> ThreadIdle]
    /\ registry_mutex = 0
    /\ logger = logger_init

\* one call select_master_playlist_language(airplay_video, master_playlist)
SelectLanguage ==
    /\ ~crashed
    /\ \E master \in LanguageMasters :
          LET r == select_master_playlist_language(airplay_video[0], master)
              e == NoEffect("select_master_playlist_language",
                            [kind |-> "master", master |-> master], 0)
          IN  /\ airplay_video' = [airplay_video EXCEPT ![0] = r.v]
              /\ crashed' = r.abort
              /\ last' = [e EXCEPT !.path = r.path, !.ret = r.out]
    /\ UNCHANGED <<current_video, client, budget, born, connection_type,
                   requested, thread, registry_mutex, logger>>

NextLanguage == SelectLanguage

SpecLanguage == InitLanguage /\ [][NextLanguage]_vars

----------------------------------------------------------------------------
(* airplay_video.c: the URI prefixes of a master playlist *)

\* the texts of at most n characters a and b
Texts(n) == UNION {[1..k -> {"a", "b"}] : k \in 0..n}

\* the uri_prefix of a session (set_uri_prefix asserts it is not empty)
UriPrefixes == { <<"a">>, <<"a", "a">>, <<"a", "b">> }

\* the local prefix that replaces it
LocalPrefixes == { <<"L">>, <<"L", "L", "L">> }

\* strstr(s + pos - 1, t): the position (from 1) of the first occurrence of t
\* in s at or after pos, 0 (NULL) when there is none
strstr_from(s, t, pos) ==
    IF \E k \in pos..(Len(s) + 1) : OccursAt(s, t, k)
      THEN CHOOSE k \in pos..(Len(s) + 1) :
              /\ OccursAt(s, t, k)
              /\ \A j \in pos..(k - 1) : ~OccursAt(s, t, j)
      ELSE 0

\* lines 750-755: the occurrences the first loop counts, ptr at position pos
RECURSIVE count_prefix(_, _, _)
count_prefix(data, uri_prefix, pos) ==
    LET ptr == strstr_from(data, uri_prefix, pos)
    IN  IF ptr = 0 THEN 0 ELSE 1 + count_prefix(data, uri_prefix, ptr + 1)

\* the characters first .. last - 1 of data
Slice(data, first, last_) == SubSeq(data, first, last_ - 1)

\* lines 771-789: the copying loop, last_ (the pointer last) at an occurrence of uri_prefix; new
\* is what was written so far
RECURSIVE copy_loop(_, _, _, _, _, _)
copy_loop(data, uri_prefix, uri_local_prefix, first, last_, new) ==
    LET new1   == new \o Slice(data, first, last_) \o uri_local_prefix
        first1 == last_ + Len(uri_prefix)
        last1  == strstr_from(data, uri_prefix, last_ + Len(uri_prefix))
    IN  IF last1 = 0
          THEN new1 \o Slice(data, first1, Len(data) + 1)
          ELSE copy_loop(data, uri_prefix, uri_local_prefix, first1, last1, new1)

\* adjust_master_playlist (lines 745-792): the text written, the bytes
\* counted, and whether assert(byte_count == new_len) fails; when uri_prefix
\* does not occur nothing is written into the buffer
adjust_master_playlist(data, uri_prefix, uri_local_prefix) ==
    LET counter == count_prefix(data, uri_prefix, 1)
        new_len == Len(data) + counter * (Len(uri_local_prefix) - Len(uri_prefix))
        last0   == strstr_from(data, uri_prefix, 1)
        written == IF last0 = 0 THEN << >>
                   ELSE copy_loop(data, uri_prefix, uri_local_prefix, 1, last0, << >>)
    IN  [ new_len    |-> new_len,
          byte_count |-> Len(written),
          written    |-> written,
          abort      |-> Len(written) # new_len ]

\* one call adjust_master_playlist(data, strlen(data), uri_prefix,
\* uri_local_prefix)
AdjustMaster ==
    /\ ~crashed
    /\ \E data \in Texts(MaxText), uri_prefix \in UriPrefixes,
          uri_local_prefix \in LocalPrefixes :
          LET r == adjust_master_playlist(data, uri_prefix, uri_local_prefix)
              e == NoEffect("adjust_master_playlist",
                            [kind |-> "adjust", data |-> data,
                             uri_prefix |-> uri_prefix,
                             uri_local_prefix |-> uri_local_prefix], -1)
          IN  /\ crashed' = r.abort
              /\ last' = [e EXCEPT !.path = IF r.abort THEN "abort" ELSE "returned",
                                   !.ret = r]
    /\ UNCHANGED <<airplay_video, current_video, client, budget, born,
                   connection_type, requested, thread, registry_mutex, logger>>

NextAdjust == AdjustMaster

SpecAdjust == Init /\ [][NextAdjust]_vars

----------------------------------------------------------------------------
(* airplay_video.c: condensed media playlists *)

\* A media playlist is described by the lengths of its parts:
\*   #EXTM3U, [#YT-EXT-CONDENSED-URL:BASE-URI="..",PARAMS="..",PREFIX=".."]
\*   and the other header lines                       (HeaderLen characters)
\*   chunks times:  #EXTINF:<duration>,\n             (FirstLineLen)
\*                  <PREFIX>                           (prefix_len)
\*                  <v1>/<v2>/.../<vN>\n               (ValuesLen)
\*   #EXT-X-ENDLIST\n                                 (TailLen)
\* base_uri_len and prefix_len are the lengths of BASE-URI and PREFIX, params
\* the lengths of the comma-separated tokens of PARAMS.

FirstLineLen == 12
ValueLen == 1
TailLen == 15

BaseUriLens == {3, 4, 5}
ParamsSizes == { << >>, <<2>>, <<1, 3>> }
PrefixLens == {1, 2, 3}

CondensedPlaylists ==
    [ condensed    : BOOLEAN,
      base_uri_len : BaseUriLens,
      params       : ParamsSizes,
      prefix_len   : PrefixLens,
      chunks       : 0..MaxChunks ]

RECURSIVE SumOf(_)
SumOf(sizes) == IF sizes = << >> THEN 0 ELSE Head(sizes) + SumOf(Tail(sizes))

\* strlen(params): the tokens and the commas between them
ParamsLen(p) ==
    IF p.params = << >> THEN 0 ELSE SumOf(p.params) + Len(p.params) - 1

\* the values line of a chunk, with the newline that ends it
ValuesLen(p) ==
    IF p.params = << >> THEN 1
    ELSE Len(p.params) * ValueLen + (Len(p.params) - 1) + 1

HeaderLen(p) ==
    8 + (IF p.condensed
           THEN 53 + p.base_uri_len + ParamsLen(p) + p.prefix_len ELSE 0)

ChunkLen(p) == FirstLineLen + p.prefix_len + ValuesLen(p)

\* strlen(media_playlist)
OldSize(p) == HeaderLen(p) + p.chunks * ChunkLen(p) + TailLen

\* the offsets of the #EXTINF: lines
ChunkStarts(p) == {HeaderLen(p) + (c - 1) * ChunkLen(p) : c \in 1..p.chunks}

\* strstr(old_pos, "#EXTINF:"): the offset of the first chunk at or after
\* old_pos, -1 (NULL) when there is none
NextChunk(p, old_pos) ==
    LET after == {o \in ChunkStarts(p) : o >= old_pos}
    IN  IF after = {} THEN -1
        ELSE CHOOSE o \in after : \A q \in after : o <= q

\* lines 930-958: the loop over the PARAMS tokens from token i (from 1) on,
\* giving old_pos and byte_count after it
RECURSIVE params_loop(_, _, _, _)
params_loop(p, i, old_pos, byte_count) ==
    IF i > Len(p.params) THEN [old_pos |-> old_pos, byte_count |-> byte_count]
    ELSE LET is_last == (i = Len(p.params))
             len     == IF is_last THEN ValueLen + 1 ELSE ValueLen
         IN  params_loop(p, i + 1,
                         old_pos + len + (IF is_last THEN 0 ELSE 1),
                         byte_count + 1 + p.params[i] + 1 + len)

\* lines 909-959: the loop over the chunks, ptr at a #EXTINF: line
RECURSIVE chunk_loop(_, _, _, _)
chunk_loop(p, ptr, old_pos, byte_count) ==
    IF ptr < 0 THEN [old_pos |-> old_pos, byte_count |-> byte_count]
    ELSE LET len      == FirstLineLen
             old_pos1 == old_pos + len + p.prefix_len
             ptr1     == NextChunk(p, old_pos1)
             r        == params_loop(p, 1, old_pos1,
                                     byte_count + len + p.base_uri_len)
         IN  chunk_loop(p, ptr1, r.old_pos, r.byte_count)

\* adjust_yt_condensed_playlist (lines 794-981): the length of the text
\* returned, and whether the process is aborted.  Without a #EXTINF: line the
\* length of the header copy (line 903) is computed from a NULL pointer and
\* memcpy runs off the buffer.
adjust_yt_condensed_playlist(p) ==
    IF ~p.condensed
      THEN [abort |-> FALSE, copy |-> TRUE, byte_count |-> OldSize(p),
            new_len |-> OldSize(p)]
    ELSE IF p.chunks = 0
      THEN [abort |-> TRUE, copy |-> FALSE, byte_count |-> 0,
            new_len |-> OldSize(p)]
    ELSE LET new_len == OldSize(p)
                          + p.chunks * (p.base_uri_len + ParamsLen(p))
             r       == chunk_loop(p, HeaderLen(p), HeaderLen(p), HeaderLen(p))
             total   == r.byte_count + (OldSize(p) - r.old_pos)
         IN  [abort |-> total # new_len, copy |-> FALSE,
              byte_count |-> total, new_len |-> new_len]

\* one call adjust_yt_condensed_playlist(media_playlist)
AdjustCondensed ==
    /\ ~crashed
    /\ \E p \in CondensedPlaylists :
          LET r == adjust_yt_condensed_playlist(p)
              e == NoEffect("adjust_yt_condensed_playlist",
                            [kind |-> "condensed", media_playlist |-> p], -1)
          IN  /\ crashed' = r.abort
              /\ last' = [e EXCEPT !.path = IF r.abort THEN "abort" ELSE "returned",
                                   !.ret = r]
    /\ UNCHANGED <<airplay_video, current_video, client, budget, born,
                   connection_type, requested, thread, registry_mutex, logger>>

NextCondensed == AdjustCondensed

SpecCondensed == Init /\ [][NextCondensed]_vars

----------------------------------------------------------------------------
(* http_handlers.h: GET /playback-info and the local HLS channel *)

\* what on_video_acquire_playback_info reports
PlaybackInfos == [duration : {-1, 100}, position : {-1, 10}]

IsFinished_position(playback_info) == playback_info.position = -1

\* line 392: the video has finished
IsFinished(playback_info) == playback_info.duration = -1

\* GET /playback-info (lines 377-418)
http_handler_playback_info(av, cur, playback_info) ==
    LET eff == NoEffect("playback_info", playback_info, cur)
    IN  IF IsFinished(playback_info)
          THEN Result(av, cur, [eff EXCEPT !.path = "finished",
                                           !.disconnect = TRUE,
                                           !.video_reset = <<"HLS_SHUTDOWN">>])
        ELSE IF playback_info.position = -1
          THEN Result(av, cur, [eff EXCEPT !.path = "not_available"])
        ELSE Result(av, cur,
                    [eff EXCEPT !.path = "plist",
                                !.body = [kind |-> "playback_info",
                                          data |-> playback_info],
                                !.headers = << <<"Content-Type",
                                                 "text/x-apple-plist+xml">> >>])

\* the url /master.m3u8
MasterUrl == <<"/", "m">>

\* the urls the media player asks for
HlsUrls == { MasterUrl, <<"/", "a">>, <<"/", "b">>, <<"/", "c">>, <<"/">> }

\* the text of the media playlists: the one of 30 seconds is a plain playlist,
\* the one of 100 seconds a condensed one
PlaylistText(media_playlist) ==
    [ condensed |-> (media_playlist = 100), base_uri_len |-> 5,
      params |-> <<1, 3>>, prefix_len |-> 3, chunks |-> 2 ]

NotFound(eff) == [eff EXCEPT !.status = 404, !.path = "not_found"]

\* GET on the local HLS channel (lines 946-1013); the caller passes
\* *response_datalen = 0
http_handler_hls(av, cur, req) ==
    LET eff == NoEffect("hls", req, cur)
    IN  IF cur = -1 THEN Result(av, cur, NotFound(eff))
        ELSE IF req.upgrade
          THEN Result(av, cur, [eff EXCEPT !.path = "declined"])
        ELSE IF av[cur] = NULL THEN Abort(av, cur, eff)
        ELSE IF req.url = MasterUrl
          THEN IF av[cur].master_playlist # << >>
                 THEN Result(av, cur,
                             [eff EXCEPT !.path = "master",
                                         !.body = [kind |-> "master",
                                                   data |-> av[cur].master_playlist[1]]])
                 ELSE Result(av, cur, NotFound(eff))
        ELSE LET media_playlist == get_media_playlist(av[cur], req.url)
             IN  IF media_playlist = 0 THEN Result(av, cur, NotFound(eff))
                 ELSE IF adjust_yt_condensed_playlist(PlaylistText(media_playlist)).abort
                   THEN Abort(av, cur, eff)
                 ELSE Result(av, cur,
                             [eff EXCEPT !.path = "media",
                                         !.body = [kind |-> "media",
                                                   data |-> media_playlist]])

MayLocal == client = "arbitrary" /\ budget.requests <= MaxLocalAfter

\* GET /playback-info
PlaybackInfo ==
    /\ ~crashed
    /\ MayLocal
    /\ \E playback_info \in PlaybackInfos :
          Handled(http_handler_playback_info(airplay_video, current_video,
                                             playback_info))
    /\ UNCHANGED <<client, budget, thread>>

\* GET /master.m3u8 or GET /<media playlist> from the media player
HlsGet ==
    /\ ~crashed
    /\ MayLocal
    /\ \E url \in HlsUrls, upgrade \in BOOLEAN :
          Handled(http_handler_hls(airplay_video, current_video,
                                   [kind |-> "hls", url |-> url,
                                    upgrade |-> upgrade]))
    /\ UNCHANGED <<client, budget, thread>>

InitPlayer == Init /\ client = "arbitrary"

\* the client's requests, and those of the media player
NextPlayer ==
    \/ PlayNew
    \/ PlayResume
    \/ PlayRejected
    \/ ActionNoCurrent
    \/ ActionResponse
    \/ ActionPlaylistRemove
    \/ ActionIgnored
    \/ ActionRejected
    \/ PlaybackInfo
    \/ HlsGet

SpecPlayer == InitPlayer /\ [][NextPlayer]_vars

----------------------------------------------------------------------------
(* http_handlers.h: POST /play on several connection threads *)

\* the playback_uuid values the threads' requests carry
ThreadUuids == {1, 2}

ThreadStep(t, pc) ==
    /\ ~crashed
    /\ thread[t].pc = pc

OtherUnchanged ==
    UNCHANGED <<airplay_video, current_video, crashed, last, client, budget,
                born, connection_type, requested, logger>>

\* a connection thread receives a POST /play
Accept(t) ==
    /\ ThreadStep(t, "idle")
    /\ thread[t].served < MaxThreadPlays
    /\ \E req \in WellFormedPlays("conforming", ThreadUuids) :
          thread' = [thread EXCEPT ![t] =
                        [@ EXCEPT !.pc = "lock", !.req = req, !.id = -1,
                                  !.was_new = req.uuid \notin StoredUuids(airplay_video)]]
    /\ UNCHANGED registry_mutex
    /\ OtherUnchanged

\* the registry's mutex can be taken
MutexFree(t) == registry_mutex = 0

\* the thread takes the mutex that guards the registry
Lock(t) ==
    /\ ThreadStep(t, "lock")
    /\ MutexFree(t)
    /\ registry_mutex' = t
    /\ thread' = [thread EXCEPT ![t].pc = "lookup"]
    /\ OtherUnchanged

\* line 784: id = get_playlist_by_uuid(raop, playback_uuid)
Lookup(t) ==
    /\ ThreadStep(t, "lookup")
    /\ thread' = [thread EXCEPT ![t].pc = "store",
                                ![t].id = get_playlist_by_uuid(airplay_video,
                                                               thread[t].req.uuid)]
    /\ UNCHANGED registry_mutex
    /\ OtherUnchanged

\* lines 787-925: the session found is made current, or a new one is stored
Store(t) ==
    /\ ThreadStep(t, "store")
    /\ LET req == thread[t].req
           id  == thread[t].id
           eff == NoEffect("play", req, current_video)
       IN  IF id >= 0
             THEN IF airplay_video[id] = NULL
                    THEN Handled(Abort(airplay_video, id, eff))
                    ELSE Handled(play_existing(airplay_video, req, id, eff))
             ELSE \E dur \in DurationReads(airplay_video) :
                     Handled(play_new(airplay_video, req, dur, eff))
    /\ thread' = [thread EXCEPT ![t].pc = "unlock"]
    /\ UNCHANGED <<client, budget>>

\* the thread releases the mutex and the response is sent
Unlock(t) ==
    /\ ThreadStep(t, "unlock")
    /\ registry_mutex' = IF registry_mutex = t THEN 0 ELSE registry_mutex
    /\ thread' = [thread EXCEPT ![t].pc = "idle", ![t].served = @ + 1]
    /\ OtherUnchanged

\* the client answers an FCUP request; the POST /action is handled while no
\* other thread holds the mutex
ActionOnThread ==
    /\ MutexFree(0)
    /\ ActionResponse

InitThreads == Init /\ client = "conforming"

NextThreads ==
    \/ \E t \in Threads :
          \/ Accept(t)
          \/ Lock(t)
          \/ Lookup(t)
          \/ Store(t)
          \/ Unlock(t)
    \/ ActionOnThread

SpecThreads == InitThreads /\ [][NextThreads]_vars

----------------------------------------------------------------------------
(* http_handlers.h: POST /action, the FCUP_Response_RequestID of the response *)

\* the values of FCUP_Response_RequestID (lines 597-605)
ResponseRequestIDs == 1..MaxResponseRequestID

\* POST /action, type unhandledURLResponse, with its FCUP_Response_RequestID
ActionResponseWithID ==
    /\ ~crashed
    /\ MayAct
    /\ current_video >= 0
    /\ \E u \in {"master", "media"}, request_id \in ResponseRequestIDs :
       \E d \in ResponseData(client, u) :
          LET req == [ActionBase(airplay_video[current_video].apple_session_id,
                                 "unhandledURLResponse") EXCEPT
                         !.url = u, !.has_data = TRUE, !.data = d]
          IN  Handled(http_handler_action(airplay_video, current_video,
                                          req @@ [request_id |-> request_id], 0))
    /\ Count("requests")
    /\ UNCHANGED <<client, thread>>

NextCorrelation ==
    \/ PlayNew
    \/ ActionResponseWithID

SpecCorrelation == InitPlayer /\ [][NextCorrelation]_vars

----------------------------------------------------------------------------
(* http_handlers.h: PUT /setProperty *)

\* the properties of the url /setProperty?<property>
Properties == {"selectedMediaArray", "reverseEndTime", "forwardEndTime",
               "actionAtItemEnd", "other"}

\* MediaSelectionOptionsName and MediaSelectionOptionsUnicodeLanguageIdentifier
\* of an entry of the array; << >> is a value that is no string, or no value
OptionNames == { << >>, <<"E">>, <<"F">> }

OptionCodes == { << >>, <<"e", "n">> }

MediaSelectionOptions == [name : OptionNames, code : OptionCodes]

\* the plist node "value" of the request: the arrays, and a node that is no array
SelectedMediaArrays ==
    UNION {[1..n -> MediaSelectionOptions] : n \in 0..MaxOptions}

\* plist_array_get_item(array, i): an entry without strings when there is none
plist_array_get_item(array, i) ==
    IF i + 1 \in DOMAIN array THEN array[i + 1] ELSE [name |-> << >>, code |-> << >>]

\* plist_free(item) of line 247: the library takes the freed item out of its
\* array (detach) or leaves the array as it is
plist_free(array, i, detach) ==
    IF detach /\ i + 1 \in DOMAIN array
      THEN [k \in 1..(Len(array) - 1) |-> IF k < i + 1 THEN array[k] ELSE array[k + 1]]
      ELSE array

RECURSIVE MediaSelection(_, _, _, _, _, _)
\* the loop of lines 212-250
MediaSelection(array, i, count, language_name, language_code, detach) ==
    IF i >= count
      THEN [language_name |-> language_name, language_code |-> language_code]
      ELSE LET item == plist_array_get_item(array, i)
               name == IF language_name = << >> THEN item.name ELSE language_name
               code == IF language_code = << >> THEN item.code ELSE language_code
           IN  IF code # << >> /\ name # << >>
                 THEN [language_name |-> name, language_code |-> code]
                 ELSE MediaSelection(plist_free(array, i, detach), i + 1, count,
                                     name, code, detach)

\* PUT /setProperty (lines 160-278)
http_handler_set_property(av, cur, req, detach) ==
    LET eff        == NoEffect("set_property", req, cur)
        post_error == [eff EXCEPT !.path = "post_error",
                                  !.headers = << <<"Content-Length", "0">> >>]
    IN  IF cur < 0 \/ av[cur] = NULL THEN Abort(av, cur, eff)
        ELSE IF req.property = "selectedMediaArray"
          THEN IF ~req.binary_plist \/ ~req.is_array
                 THEN Result(av, cur, post_error)
                 ELSE LET s == MediaSelection(req.value, 0, Len(req.value),
                                              << >>, << >>, detach)
                      IN  IF s.language_code # << >> /\ s.language_name # << >>
                            THEN Result([av EXCEPT
                                            ![cur].language_code = s.language_code,
                                            ![cur].language_name = s.language_name],
                                        cur, [eff EXCEPT !.path = "language"])
                            ELSE Result(av, cur, [eff EXCEPT !.path = "no_language"])
        ELSE IF req.property \in {"reverseEndTime", "forwardEndTime", "actionAtItemEnd"}
          THEN Result(av, cur,
                      [eff EXCEPT !.path = "unhandled",
                                  !.body = [kind |-> "plist", errorCode |-> 0],
                                  !.headers = << <<"Content-Type",
                                                   "text/x-apple-plist+xml">> >>])
        ELSE Result(av, cur, post_error)

\* the PUT /setProperty requests
SetPropertyRequests ==
    LET base == [kind |-> "set_property", property |-> "selectedMediaArray",
                 binary_plist |-> TRUE, is_array |-> TRUE, value |-> << >>]
    IN  {[base EXCEPT !.value = value] : value \in SelectedMediaArrays}
          \cup {[base EXCEPT !.property = property] : property \in Properties}
          \cup {[base EXCEPT !.binary_plist = FALSE], [base EXCEPT !.is_array = FALSE]}

\* PUT /setProperty
SetProperty ==
    /\ ~crashed
    /\ MayLocal
    /\ \E req \in SetPropertyRequests, detach \in BOOLEAN :
          /\ Len(req.value) < 2 => detach
          /\ Handled(http_handler_set_property(airplay_video, current_video,
                                               req, detach))
    /\ UNCHANGED <<client, budget, thread>>

NextProperty ==
    \/ PlayNew
    \/ ActionPlaylistRemove
    \/ SetProperty

SpecProperty == InitPlayer /\ [][NextProperty]_vars

----------------------------------------------------------------------------
(* logger.c *)

\* MUTEX_LOCK is possible, MUTEX_LOCK and MUTEX_UNLOCK
MutexCanLock(l, mutex) == l[mutex] = 0

MUTEX_LOCK(l, mutex, t) == [l EXCEPT ![mutex] = t]

MUTEX_UNLOCK_skipped(l, mutex, t) == l

MUTEX_UNLOCK(l, mutex, t) == [l EXCEPT ![mutex] = IF @ = t THEN 0 ELSE @]

\* the thread goes to the next statement of its logger operation
Goto(l, t, pc) == [l EXCEPT !.at[t].pc = pc]

\* the operation returns to its caller
Return(l, t) == [l EXCEPT !.at[t] = LoggerIdle]

LoggerOtherUnchanged ==
    UNCHANGED <<airplay_video, current_video, last, client, budget, born,
                connection_type, requested, thread, registry_mutex>>

LoggerStep(t, op, pc) ==
    /\ ~crashed
    /\ logger.at[t].op = op
    /\ logger.at[t].pc = pc

\* a thread calls an operation of the logger
LoggerCall(t) ==
    /\ ~crashed
    /\ logger.at[t].pc = "idle"
    /\ logger.calls < MaxLoggerCalls
    /\ \E op \in {"set_level", "get_level", "set_callback", "log"},
          level \in {LOGGER_ERR, LOGGER_DEBUG}, callback \in {0, 1} :
          logger' = [logger EXCEPT
                        !.calls = @ + 1,
                        !.at[t].op = op, !.at[t].pc = "lock",
                        !.at[t].level = IF op \in {"set_level", "log"}
                                          THEN level ELSE 0,
                        !.at[t].callback = IF op = "set_callback"
                                             THEN callback ELSE 0]
    /\ UNCHANGED crashed
    /\ LoggerOtherUnchanged

\* logger_set_level (lines 57-65)
logger_set_level(t) ==
    /\ \/ /\ LoggerStep(t, "set_level", "lock")
          /\ MutexCanLock(logger, "lvl_mutex")
          /\ logger' = Goto(MUTEX_LOCK(logger, "lvl_mutex", t), t, "write")
       \/ /\ LoggerStep(t, "set_level", "write")
          /\ logger' = Goto([logger EXCEPT !.level = logger.at[t].level], t, "unlock")
       \/ /\ LoggerStep(t, "set_level", "unlock")
          /\ logger' = Return(MUTEX_UNLOCK(logger, "lvl_mutex", t), t)
    /\ UNCHANGED crashed
    /\ LoggerOtherUnchanged

\* logger_get_level (lines 67-77)
logger_get_level(t) ==
    /\ \/ /\ LoggerStep(t, "get_level", "lock")
          /\ MutexCanLock(logger, "lvl_mutex")
          /\ logger' = Goto(MUTEX_LOCK(logger, "lvl_mutex", t), t, "read")
       \/ /\ LoggerStep(t, "get_level", "read")
          /\ logger' = Goto([logger EXCEPT !.at[t].ret = logger.level], t, "unlock")
       \/ /\ LoggerStep(t, "get_level", "unlock")
          /\ logger' = Return(MUTEX_UNLOCK(logger, "lvl_mutex", t), t)
    /\ UNCHANGED crashed
    /\ LoggerOtherUnchanged

\* logger_set_callback (lines 79-88)
logger_set_callback(t) ==
    /\ \/ /\ LoggerStep(t, "set_callback", "lock")
          /\ MutexCanLock(logger, "cb_mutex")
          /\ logger' = Goto(MUTEX_LOCK(logger, "cb_mutex", t), t, "write")
       \/ /\ LoggerStep(t, "set_callback", "write")
          /\ logger' = Goto([logger EXCEPT !.callback = logger.at[t].callback],
                            t, "unlock")
       \/ /\ LoggerStep(t, "set_callback", "unlock")
          /\ logger' = Return(MUTEX_UNLOCK(logger, "cb_mutex", t), t)
    /\ UNCHANGED crashed
    /\ LoggerOtherUnchanged

\* logger_log (lines 90-117); the assertion of line 111 aborts the process
\* when no callback is set
logger_log(t) ==
    /\ \/ /\ LoggerStep(t, "log", "lock")
          /\ MutexCanLock(logger, "lvl_mutex")
          /\ logger' = Goto(MUTEX_LOCK(logger, "lvl_mutex", t), t, "check")
          /\ UNCHANGED crashed
       \/ /\ LoggerStep(t, "log", "check")
          /\ logger' = IF logger.at[t].level > logger.level
                         THEN Return(MUTEX_UNLOCK(logger, "lvl_mutex", t), t)
                         ELSE Goto(MUTEX_UNLOCK(logger, "lvl_mutex", t), t, "cb_lock")
          /\ UNCHANGED crashed
       \/ /\ LoggerStep(t, "log", "cb_lock")
          /\ MutexCanLock(logger, "cb_mutex")
          /\ logger' = Goto(MUTEX_LOCK(logger, "cb_mutex", t), t, "callback")
          /\ UNCHANGED crashed
       \/ /\ LoggerStep(t, "log", "callback")
          /\ IF logger.callback = 0
               THEN crashed' = TRUE /\ UNCHANGED logger
               ELSE /\ logger' = Goto(logger, t, "cb_unlock")
                    /\ UNCHANGED crashed
       \/ /\ LoggerStep(t, "log", "cb_unlock")
          /\ logger' = Return(MUTEX_UNLOCK(logger, "cb_mutex", t), t)
          /\ UNCHANGED crashed
    /\ LoggerOtherUnchanged

NextLogger ==
    \E t \in LoggerThreads :
        \/ LoggerCall(t)
        \/ logger_set_level(t)
        \/ logger_get_level(t)
        \/ logger_set_callback(t)
        \/ logger_log(t)

SpecLogger == InitThreads /\ [][NextLogger]_vars

----------------------------------------------------------------------------
(* Properties *)

\* the request passed the checks of POST /play that come before the uuid lookup
PlayAccepted(req) ==
    req.kind = "play" /\ req.session_id # 0 /\ req.binary_plist /\ req.uuid # 0

\* the last handler was POST /play and it allocated a session
InsertedNew ==
    /\ ~crashed
    /\ last.handler = "play"
    /\ PlayAccepted(last.req)
    /\ last.path \in {"new", "new_error"}

\* C1: the registry never holds more than MAX_AIRPLAY_VIDEO sessions, and the
\* session a POST /play has just inserted is in its slot, and is the current
\* one, when the handler returns: pruning and eviction did not remove it.
C1_InsertKeepsNewSession ==
    /\ Cardinality(Occupied(airplay_video)) <= MAX_AIRPLAY_VIDEO
    /\ InsertedNew =>
          /\ last.slot \in Slots
          /\ current_video = last.slot
          /\ airplay_video[last.slot] # NULL
          /\ airplay_video[last.slot].playback_uuid = last.req.uuid

\* a POST /play inserted a session and a session was evicted for capacity
C1_Witness ==
    /\ InsertedNew
    /\ last.evicted # {}
    /\ Cardinality(Occupied(airplay_video)) = MAX_AIRPLAY_VIDEO - 1

\* C2: no two occupied slots hold sessions with the same playback_uuid.
C2_UniquePlaybackUuid ==
    \A i, j \in Occupied(airplay_video) :
        i # j => airplay_video[i].playback_uuid # airplay_video[j].playback_uuid

\* a POST /play for the uuid of a stored session returned, with several
\* sessions stored
C2_Witness ==
    /\ last.handler = "play"
    /\ last.path = "resume"
    /\ Cardinality(Occupied(airplay_video)) >= 2
    /\ last.slot # 0

\* item k (C index) of the media store of v holds a playlist, or is the alias
\* of an earlier item with the same URI that holds one
StoredOrAliased(v, k) ==
    LET item == v.media_data_store[k + 1]
    IN  \/ item.playlist # 0
        \/ /\ item.num < k
           /\ v.media_data_store[item.num + 1].uri = item.uri
           /\ v.media_data_store[item.num + 1].playlist # 0

AllFetched(v) ==
    /\ v.master_playlist # << >>
    /\ v.next_uri = v.num_uri
    /\ \A k \in 0..(v.num_uri - 1) : StoredOrAliased(v, k)

\* C3: for each session, POST /action invokes on_video_play (with the
\* session's playback_location and start_position_seconds) exactly once per
\* start-up, and only when the final media playlist has been stored, whatever
\* unhandledURLResponse deliveries the client makes.
C3_OnVideoPlayOnce ==
    /\ \A i \in Occupied(airplay_video) :
          /\ airplay_video[i].plays <= 1
          /\ airplay_video[i].plays >= 1 => AllFetched(airplay_video[i])
    /\ (~crashed /\ last.handler = "action" /\ last.on_video_play # << >>) =>
          /\ Len(last.on_video_play) = 1
          /\ last.on_video_play[1] =
                [location |-> airplay_video[last.slot].playback_location,
                 position |-> airplay_video[last.slot].start_position_seconds]

SentFor(i) == SelectSeq(last'.fcup, LAMBDA f : f.slot = i)

\* slot i holds the same session before and after the step
SameSession(i) ==
    /\ airplay_video[i] # NULL
    /\ airplay_video'[i] # NULL
    /\ airplay_video'[i].playback_uuid = airplay_video[i].playback_uuid

\* the step is a POST /play for the uuid of a stored session
ResumeStep ==
    /\ last'.handler = "play"
    /\ PlayAccepted(last'.req)
    /\ last'.req.uuid \in StoredUuids(airplay_video)

\* C5: the request IDs of a session are 1, 2, 3, ...: the counter starts at 0,
\* every FCUP request carries the counter's value plus one and increments it,
\* the first request of a session (for the master playlist) carries 1, and a
\* resumed POST /play sends no FCUP request and leaves the counter unchanged.
C5_RequestIdsCount ==
    [][ (~crashed' /\ last'.handler # "none") =>
          /\ \A i \in Slots :
                LET sent == SentFor(i)
                IN  /\ Len(sent) <= 1
                    /\ SameSession(i) =>
                          /\ airplay_video'[i].FCUP_RequestID =
                                airplay_video[i].FCUP_RequestID + Len(sent)
                          /\ sent # << >> =>
                                sent[1].request_id = airplay_video[i].FCUP_RequestID + 1
                    /\ (airplay_video'[i] # NULL /\ ~SameSession(i)) =>
                          /\ airplay_video'[i].FCUP_RequestID = Len(sent)
                          /\ sent # << >> =>
                                sent[1].request_id = 1 /\ sent[1].url.kind = "master"
                    /\ airplay_video'[i] = NULL => sent = << >>
          /\ ResumeStep => last'.fcup = << >>
      ]_vars

\* the third FCUP request of a session has been sent
C5_Witness ==
    /\ ~crashed
    /\ last.fcup # << >>
    /\ last.fcup[1].request_id = 3
    /\ airplay_video[last.slot].FCUP_RequestID = 3

\* the step is a POST /play that passes the checks of the session id, the
\* plist and the uuid
PlayStep == last'.handler = "play" /\ PlayAccepted(last'.req)

\* C6: a well-formed POST /play (session id present, binary plist, uuid not
\* stored, Content-Location ending in /master.m3u8, and the clientProcName key
\* of the request format) on an empty registry leaves exactly slot 0 occupied,
\* makes it current, records the request's start position and sends exactly one
\* FCUP request, for the full Content-Location, with request ID 1; on_video_play
\* is not invoked.
C6_FreshPlay ==
    [][ ( /\ PlayStep
          /\ Occupied(airplay_video) = {}
          /\ last'.req.content_location > 0
          /\ last'.req.client_proc_name ) =>
          /\ ~crashed'
          /\ last'.status = 200
          /\ Occupied(airplay_video') = {0}
          /\ current_video' = 0
          /\ airplay_video'[0].playback_uuid = last'.req.uuid
          /\ airplay_video'[0].start_position_seconds = last'.req.start
          /\ last'.fcup = << [slot |-> 0, index |-> -1,
                              url |-> [kind |-> "master",
                                       ref |-> last'.req.content_location],
                              session_id |-> last'.req.session_id,
                              request_id |-> 1] >>
          /\ last'.on_video_play = << >>
      ]_vars

\* a POST /play with a start position has created the first session
C6_Witness ==
    /\ ~crashed
    /\ last.handler = "play"
    /\ last.path = "new"
    /\ last.current_before = -1
    /\ last.pruned = {} /\ last.evicted = {}
    /\ Occupied(airplay_video) = {0}
    /\ last.req.start = 12
    /\ airplay_video[0].start_position_seconds = 12

\* C7: a POST /play for the uuid of a stored session creates no session, sends
\* no FCUP request, makes that session's slot current, replaces its
\* apple_session_id by the request's, and invokes on_video_play exactly once
\* with the playback location and the larger of the resume and the start
\* position; nothing else in the registry changes.
C7_Resume ==
    [][ ResumeStep =>
          \E i \in Occupied(airplay_video) :
             LET v == airplay_video[i]
             IN  /\ v.playback_uuid = last'.req.uuid
                 /\ ~crashed'
                 /\ airplay_video' =
                       [airplay_video EXCEPT ![i].apple_session_id = last'.req.session_id]
                 /\ current_video' = i
                 /\ last'.fcup = << >>
                 /\ Len(last'.on_video_play) = 1
                 /\ last'.on_video_play[1].location = v.playback_location
                 /\ last'.on_video_play[1].position \in
                       {v.resume_position_seconds, v.start_position_seconds}
                 /\ last'.on_video_play[1].position >= v.resume_position_seconds
                 /\ last'.on_video_play[1].position >= v.start_position_seconds
      ]_vars

\* a removed session was resumed at its resume position, later than its start
C7_Witness ==
    /\ ~crashed
    /\ last.handler = "play"
    /\ last.path = "resume"
    /\ last.current_before = -1
    /\ airplay_video[last.slot].resume_position_seconds >
          airplay_video[last.slot].start_position_seconds
    /\ airplay_video[last.slot].start_position_seconds > 0
    /\ last.on_video_play[1].position = airplay_video[last.slot].resume_position_seconds

\* the step is a POST /action of type playlistRemove that is answered 200
RemoveStep ==
    /\ last'.handler = "action"
    /\ last'.req.type = "playlistRemove"
    /\ last'.status = 200
    /\ ~crashed'

\* C8: POST /action playlistRemove: when item.uuid is the uuid of the current
\* session, current becomes -1, on_video_playlist_remove is invoked once, the
\* position it returns becomes that session's resume position and the session
\* stays stored; otherwise current and the registry (every resume position)
\* are unchanged and the callback is not invoked.
C8_PlaylistRemove ==
    [][ RemoveStep =>
          IF /\ current_video \in Occupied(airplay_video)
             /\ airplay_video[current_video].playback_uuid = last'.req.uuid
          THEN /\ current_video' = -1
               /\ Len(last'.on_video_playlist_remove) = 1
               /\ airplay_video' =
                     [airplay_video EXCEPT ![current_video].resume_position_seconds =
                                              last'.on_video_playlist_remove[1]]
               /\ get_playlist_by_uuid(airplay_video', last'.req.uuid) = current_video
          ELSE /\ current_video' = current_video
               /\ airplay_video' = airplay_video
               /\ last'.on_video_playlist_remove = << >>
      ]_vars

\* the current session was removed and keeps the returned position
C8_Witness ==
    /\ ~crashed
    /\ last.handler = "action"
    /\ last.path = "remove"
    /\ current_video = -1
    /\ last.on_video_playlist_remove = <<20>>
    /\ airplay_video[last.slot] # NULL
    /\ airplay_video[last.slot].resume_position_seconds = 20
    /\ airplay_video[last.slot].playback_uuid = last.req.uuid

\* the step is a POST /play that creates a session
NewSessionStep ==
    /\ PlayStep
    /\ last'.req.uuid \notin StoredUuids(airplay_video)

\* get_duration returns less than 90 for v, whatever it reads
Short(v) ==
    \A d \in get_duration_outcomes(v) : d < MIN_STORED_AIRPLAY_VIDEO_DURATION_SECONDS

\* get_duration returns 90 or more for v, whatever it reads
Long(v) ==
    \A d \in get_duration_outcomes(v) : d >= MIN_STORED_AIRPLAY_VIDEO_DURATION_SECONDS

\* the step is a POST /play for a new uuid that is answered 200 while a
\* session is current
ReplacementStep ==
    /\ NewSessionStep
    /\ ~crashed'
    /\ last'.status = 200
    /\ current_video \in Occupied(airplay_video)

NewIsCurrent ==
    /\ current_video' = last'.slot
    /\ current_video' \in Occupied(airplay_video')
    /\ airplay_video'[current_video'].playback_uuid = last'.req.uuid

\* the session that was current is stored as it was
OldRemains ==
    /\ airplay_video'[current_video] = airplay_video[current_video]
    /\ get_playlist_by_uuid(airplay_video',
                            airplay_video[current_video].playback_uuid) = current_video

\* C9 as stated: when a POST /play for a new uuid is accepted while session S
\* is current, the new session becomes current and S remains stored, findable
\* by its uuid, unless S occupies the slot evicted for capacity.
C9_ReplacementKeepsOld ==
    [][ ReplacementStep =>
          /\ NewIsCurrent
          /\ current_video \notin last'.evicted => OldRemains
      ]_vars

\* C9, amended: when a POST /play for a new uuid is accepted while session S
\* is current, the new session becomes current; S remains stored, findable by
\* its uuid, when its stored duration is 90 seconds or more and it does not
\* occupy the slot evicted for capacity; S is destroyed when its stored
\* duration is below 90 seconds (pruned as an advertisement).
C9_ReplacementKeepsLongOld ==
    [][ ReplacementStep =>
          /\ NewIsCurrent
          /\ (Long(airplay_video[current_video]) /\ current_video \notin last'.evicted)
                => OldRemains
          /\ Short(airplay_video[current_video]) =>
                airplay_video[current_video].playback_uuid
                   \notin StoredUuids(airplay_video')
      ]_vars

\* a new session replaced a current session of 100 seconds, which is still
\* stored in another slot
C9_Witness ==
    /\ ~crashed
    /\ last.handler = "play"
    /\ last.path = "new"
    /\ last.current_before \in Occupied(airplay_video)
    /\ last.current_before # last.slot
    /\ current_video = last.slot
    /\ Long(airplay_video[last.current_before])

\* C10: when a POST /play creates a session, every stored session whose
\* duration is below 90 seconds is destroyed before the new session takes the
\* first empty slot, and no session of 90 seconds or more is destroyed other
\* than the one in the slot evicted for capacity; the new session is always
\* inserted and at most nine sessions are stored afterwards.
C10_PruneAdvertisements ==
    [][ (NewSessionStep /\ ~crashed) =>
          /\ ~crashed'
          /\ last'.slot \in Occupied(airplay_video')
          /\ airplay_video'[last'.slot].playback_uuid = last'.req.uuid
          /\ Cardinality(Occupied(airplay_video')) < MAX_AIRPLAY_VIDEO
          /\ \A i \in Occupied(airplay_video) :
                /\ Short(airplay_video[i]) =>
                      /\ airplay_video[i].playback_uuid \notin StoredUuids(airplay_video')
                      /\ i \in last'.pruned
                /\ Long(airplay_video[i]) =>
                      /\ i \notin last'.pruned
                      /\ i \notin last'.evicted => airplay_video'[i] = airplay_video[i]
          /\ \A i \in Slots :
                (i < last'.slot) =>
                   /\ airplay_video[i] # NULL
                   /\ ~Short(airplay_video[i])
          /\ airplay_video[last'.slot] = NULL \/ ~Long(airplay_video[last'.slot])
      ]_vars

\* the eleventh POST /play pruned an advertisement and kept a long session
C10_Witness ==
    /\ ~crashed
    /\ client = "conforming"
    /\ budget.plays = MaxPlaysConforming
    /\ last.handler = "play"
    /\ last.path = "new"
    /\ last.pruned # {}
    /\ \E i \in Occupied(airplay_video) :
          i # last.slot /\ Long(airplay_video[i])

\* C11: when a POST /play inserts a session into slot i and ten sessions are
\* stored after the insertion, exactly one session is destroyed, the one in
\* slot (i+1) mod 10, and that slot becomes empty; when fewer than ten are
\* stored after the insertion, no session of 90 seconds or more is destroyed.
C11_CapacityEviction ==
    [][ (NewSessionStep /\ ~crashed) =>
          LET kept == Occupied(airplay_video) \ last'.pruned
              i    == last'.slot
              e    == (i + 1) % 10
          IN  /\ ~crashed'
              /\ i \in Slots \ kept
              /\ IF Cardinality(kept) + 1 = 10
                   THEN /\ last'.pruned = {}
                        /\ e \in kept
                        /\ airplay_video'[e] = NULL
                        /\ Occupied(airplay_video') = (kept \cup {i}) \ {e}
                        /\ \A j \in kept \ {e} : airplay_video'[j] = airplay_video[j]
                   ELSE /\ Cardinality(kept) + 1 < 10
                        /\ Occupied(airplay_video') = kept \cup {i}
                        /\ \A j \in Occupied(airplay_video) :
                              Long(airplay_video[j]) =>
                                 airplay_video'[j] = airplay_video[j]
      ]_vars

\* a session inserted into slot 9 made ten, and slot 0 was emptied
C11_Witness ==
    /\ ~crashed
    /\ last.handler = "play"
    /\ last.path = "new"
    /\ last.slot = 9
    /\ last.evicted = {0}
    /\ airplay_video[0] = NULL
    /\ Occupied(airplay_video) = 1..9

\* C12: whenever a POST /play evicts the session in slot (new_index+1) mod 10
\* for capacity, that session was inserted earlier than every other session
\* stored at that moment.
C12_EvictsOldest ==
    [][ (NewSessionStep /\ ~crashed /\ ~crashed' /\ last'.evicted # {}) =>
          \A e \in last'.evicted :
             /\ e = (last'.slot + 1) % 10
             /\ e \in Occupied(airplay_video)
             /\ \A j \in Occupied(airplay_video) \ (last'.pruned \cup {e}) :
                   born[e] < born[j]
      ]_vars

\* the request lacks the session id header, a binary plist body or the uuid
PlayDefectEarly(req) == req.session_id = 0 \/ ~req.binary_plist \/ req.uuid = 0

\* the request lacks Content-Location or clientProcName, or its
\* Content-Location does not end in /master.m3u8
PlayDefectLate(req) == req.content_location <= 0 \/ ~req.client_proc_name

C14_ErrorLeavesStateUnmodified ==
    [][ ( /\ last'.handler \in {"play", "action"}
          /\ ~crashed'
          /\ last'.status = 400 ) =>
          /\ airplay_video' = airplay_video
          /\ current_video' = current_video
      ]_vars

\* the step is a POST /action of type playlistRemove for the current session's
\* session id, with an item whose uuid no stored session has
RemoveUnknownStep ==
    /\ last'.handler = "action"
    /\ ~crashed /\ ~crashed'
    /\ current_video \in Occupied(airplay_video)
    /\ last'.req.type = "playlistRemove"
    /\ last'.req.session_id = airplay_video[current_video].apple_session_id
    /\ last'.req.binary_plist /\ last'.req.params /\ last'.req.item
    /\ last'.req.uuid # 0
    /\ last'.req.uuid \notin StoredUuids(airplay_video)

\* C15 as stated: a playlistRemove whose item.uuid matches no stored session is
\* answered 400 and changes neither current nor any session.
C15_UnknownUuidRejected ==
    [][ RemoveUnknownStep =>
          /\ last'.status = 400
          /\ airplay_video' = airplay_video
          /\ current_video' = current_video
      ]_vars

\* C15, amended: a playlistRemove whose item.uuid matches no stored session is
\* logged and answered 200; it changes neither current nor any session and
\* on_video_playlist_remove is not invoked.
C15_UnknownUuidIgnored ==
    [][ RemoveUnknownStep =>
          /\ last'.status = 200
          /\ airplay_video' = airplay_video
          /\ current_video' = current_video
          /\ last'.on_video_playlist_remove = << >>
      ]_vars

\* a playlistRemove for a uuid that is not stored was answered
C15_Witness ==
    /\ ~crashed
    /\ last.handler = "action"
    /\ last.req.type = "playlistRemove"
    /\ last.req.item
    /\ last.req.uuid # 0
    /\ last.req.uuid \notin StoredUuids(airplay_video)
    /\ last.path = "remove_other"
    /\ current_video = last.current_before
    /\ current_video >= 0

\* C16: once playlistRemove has removed the session as current, a POST /action
\* unhandledURLResponse that arrives afterwards for it is discarded: it invokes
\* no on_video_play, sends no FCUP request, modifies no session and does not
\* stop the server.
C16_CancelledResponseDiscarded ==
    [][ ( /\ ~crashed
          /\ last.handler = "action" /\ last.path = "remove"
          /\ current_video = -1
          /\ last'.handler = "action"
          /\ last'.req.type = "unhandledURLResponse" ) =>
          /\ ~crashed'
          /\ last'.on_video_play = << >>
          /\ last'.fcup = << >>
          /\ airplay_video' = airplay_video
      ]_vars

\* a POST /reverse was handled in this step
ReverseStep == last'.handler = "reverse"

\* the response announces the upgrade to reverse HTTP
Upgraded(eff) ==
    /\ eff.status = 101
    /\ eff.headers = << <<"Connection", "Upgrade">>, <<"Upgrade", "PTTH/1.0">> >>

\* C17: of two POST /reverse on the same connection, the first (no reverse
\* connection exists yet) is answered 101 Switching Protocols with
\* Connection: Upgrade and Upgrade: PTTH/1.0, and the second (the connection is
\* tagged PTTH already) is answered with an error status and leaves the
\* connection types as they were.
C17_ReverseCollision ==
    [][ReverseStep =>
          LET conn == last'.req.conn
          IN  /\ httpd_count_connection_type(connection_type, "PTTH") = 0
                    => Upgraded(last')
              /\ connection_type[conn] = "PTTH"
                    => /\ last'.status >= 400
                       /\ connection_type' = connection_type]_vars

\* C18: after any sequence of POST /reverse at most one connection is tagged
\* PTTH; a POST /reverse that would tag a second one is answered with an error
\* status and changes nothing, the requesting connection is not tagged.
C18_SinglePTTH ==
    [][ReverseStep =>
          LET conn == last'.req.conn
          IN  /\ httpd_count_connection_type(connection_type', "PTTH") <= 1
              /\ (\E c \in Conns \ {conn} : connection_type[c] = "PTTH")
                    => /\ last'.status >= 400
                       /\ connection_type' = connection_type
                       /\ connection_type'[conn] # "PTTH"]_vars

\* the items of the session's media store (C indices)
MediaItems(v) == 0..(v.num_uri - 1)

\* C19: for every stored session, in every reachable state,
\* 0 <= next_uri <= num_uri, and next_uri = num_uri exactly when an FCUP
\* request has been sent for every item of the media store made from the
\* session's current master playlist.
C19_NextUriBounds ==
    \A i \in Occupied(airplay_video) :
        LET v == airplay_video[i]
        IN  /\ 0 <= v.next_uri
            /\ v.next_uri <= v.num_uri
            /\ v.next_uri = v.num_uri <=> requested[i] = MediaItems(v)

\* a master playlist with two media playlists is stored, both have been
\* requested, and another session still waits for its second request
C19_Witness ==
    /\ \E i \in Occupied(airplay_video) :
          /\ airplay_video[i].num_uri = 2
          /\ airplay_video[i].next_uri = 2
          /\ requested[i] = {0, 1}
    /\ \E i \in Occupied(airplay_video) :
          /\ airplay_video[i].num_uri = 2
          /\ airplay_video[i].next_uri = 1
          /\ requested[i] = {0}

\* slot i holds the same session before and after the step
SameSessionStep(i) ==
    /\ airplay_video[i] # NULL
    /\ airplay_video'[i] # NULL
    /\ ~(last'.handler = "play" /\ last'.path \in {"new", "new_error"}
         /\ last'.slot = i)

\* the step stored a master playlist for the session of slot i
MasterStoredStep(i) ==
    /\ last'.handler = "action"
    /\ last'.path = "master"
    /\ last'.slot = i

\* C20: within one session next_uri never decreases from one handler
\* invocation to the next, except when a master playlist is stored: that
\* resets it to 0 before the next FCUP request is issued, so the request that
\* follows in the same handler is the one for media index 0.
C20_NextUriMonotone ==
    [][\A i \in Slots :
          SameSessionStep(i) =>
              IF MasterStoredStep(i)
                THEN /\ \A k \in DOMAIN last'.fcup : last'.fcup[k].index = 0
                     /\ airplay_video'[i].next_uri = Len(last'.fcup)
                     /\ requested'[i] = 0..(Len(last'.fcup) - 1)
                ELSE airplay_video'[i].next_uri >= airplay_video[i].next_uri]_vars

\* a master playlist with two media playlists was stored for a session that
\* had sent three FCUP requests before (the one of POST /play and two that
\* followed responses): next_uri is 1 again, after the request for media index 0
C20_Witness ==
    /\ last.handler = "action"
    /\ last.path = "master"
    /\ last.slot \in Occupied(airplay_video)
    /\ airplay_video[last.slot].next_uri = 1
    /\ airplay_video[last.slot].num_uri = 2
    /\ Len(last.fcup) = 1
    /\ airplay_video[last.slot].FCUP_RequestID >= 4

\* the sessions that have a media data store
WithStore == {i \in Occupied(airplay_video) : airplay_video[i].has_store}

\* C21: for every media store and every item i, after any sequence of
\* store_media_playlist calls: store[i].num <= i, and if num < i then
\* store[i].playlist is null and store[num] has the same uri, has num equal to
\* its own index and a non-null playlist, so that get_media_playlist for the
\* uri of item i gives the playlist of store[num].  (A call for an item whose
\* first earlier item of the same uri holds no playlist, or another text,
\* fails the assertion of line 634 and ends the process with the store as it
\* was.)
C21_AliasInvariant ==
    \A s \in WithStore :
        LET v     == airplay_video[s]
            store == v.media_data_store
        IN  \A i \in 0..(v.num_uri - 1) :
                LET item  == store[i + 1]
                    canon == store[item.num + 1]
                IN  /\ 0 <= item.num
                    /\ item.num <= i
                    /\ item.num < i =>
                          /\ item.playlist = 0
                          /\ canon.uri = item.uri
                          /\ canon.num = item.num
                          /\ canon.playlist # 0
                          /\ get_media_playlist(v, UriText(item.uri))
                                = canon.playlist

\* the third item of a store is an alias of the first one, with another uri
\* stored between them
C21_Witness ==
    /\ ~crashed
    /\ airplay_video[0] # NULL
    /\ airplay_video[0].num_uri = 3
    /\ airplay_video[0].media_data_store[3].num = 0
    /\ airplay_video[0].media_data_store[2].playlist # 0
    /\ airplay_video[0].media_data_store[2].uri
          # airplay_video[0].media_data_store[1].uri
    /\ last.handler = "store_media_playlist"

\* the indices below num whose item has the uri of item num
SameUriBefore(v, num) ==
    {i \in 0..(num - 1) :
        v.media_data_store[i + 1].uri = v.media_data_store[num + 1].uri}

\* store_media_playlist was called in this step, for an item that has the uri
\* of an earlier item
StoreDuplicateStep ==
    /\ last'.handler = "store_media_playlist"
    /\ last'.req.num \in 0..(airplay_video[0].num_uri - 1)
    /\ SameUriBefore(airplay_video[0], last'.req.num) # {}

\* the first earlier item with the uri of item num holds this playlist text
FirstEarlierHolds(v, num, media_playlist) ==
    \E i \in SameUriBefore(v, num) :
        /\ \A k \in SameUriBefore(v, num) : i <= k
        /\ v.media_data_store[i + 1].playlist = media_playlist

\* the same call again returns duplicate and changes nothing
RepeatIsDuplicate ==
    LET r == store_media_playlist(airplay_video'[0], last'.req.media_playlist,
                                  analyze_media_playlist(last'.req.media_playlist),
                                  last'.req.num)
    IN  r.ret = 1 /\ ~r.abort /\ r.v = airplay_video'[0]

SelectStep == last'.handler = "select_master_playlist_language"

\* the positions (from 1) where the colon-separated tokens of lang start
TokenStarts(lang) == {1} \cup {k + 1 : k \in {j \in DOMAIN lang : lang[j] = ":"}}

\* the token of lang that starts at pos is a prefix match of code: their
\* first two characters agree
TokenMatches(code, lang, pos) ==
    /\ CharAt(code, 1) = CharAt(lang, pos)
    /\ CharAt(code, 2) = CharAt(lang, pos + 1)

\* some token of lang matches code
PreferenceMatches(code, lang) ==
    \E pos \in TokenStarts(lang) : TokenMatches(code, lang, pos)

\* C23: the language of a master playlist with language slices is chosen by
\* priority: (a) the stored language_name when some slice has that NAME, even
\* when the preference list matches another language; (b) otherwise a language
\* that matches the preference list; (c) otherwise the language of the slice
\* marked DEFAULT; and for every stored language_name, preference list and
\* offered languages a language is chosen, without failure.
C23_LanguagePriority ==
    [][SelectStep /\ Len(last'.req.master.slices) > 0 =>
          LET v      == airplay_video[0]
              slices == last'.req.master.slices
              code   == airplay_video'[0].language_code
              name   == airplay_video'[0].language_name
          IN  /\ ~crashed'
              /\ IF /\ v.language_name # << >>
                    /\ \E k \in DOMAIN slices : slices[k].name = v.language_name
                   THEN name = v.language_name
                 ELSE IF \E k \in DOMAIN slices :
                            PreferenceMatches(slices[k].code, v.lang)
                   THEN PreferenceMatches(code, v.lang)
                 ELSE \E k \in DOMAIN slices :
                         slices[k].is_default /\ slices[k].code = code]_vars

\* the slices whose code matches some token of lang
MatchingSlices(slices, lang) ==
    {k \in DOMAIN slices : PreferenceMatches(slices[k].code, lang)}

\* the start of the first token of lang that matches the code of some slice
FirstMatchingToken(slices, lang) ==
    CHOOSE pos \in TokenStarts(lang) :
        /\ \E k \in DOMAIN slices : TokenMatches(slices[k].code, lang, pos)
        /\ \A q \in TokenStarts(lang) :
              (\E k \in DOMAIN slices : TokenMatches(slices[k].code, lang, q))
                  => pos <= q

\* C24 as stated: a language chosen from the preference list is the first
\* language of the master playlist, in its list order, whose code matches any
\* token of the list.
C24_FirstListedMatch ==
    [][SelectStep /\ last'.path = "preference" =>
          LET slices == last'.req.master.slices
              lang   == airplay_video[0].lang
              first  == CHOOSE k \in MatchingSlices(slices, lang) :
                            \A j \in MatchingSlices(slices, lang) : k <= j
          IN  airplay_video'[0].language_code = slices[first].code]_vars

\* C24: a language chosen from the preference list is the first language of
\* the master playlist, in its list order, whose code matches the first token
\* of the list that matches an offered language: the order of the tokens
\* decides between two languages that match different tokens.
C24_FirstTokenMatch ==
    [][SelectStep /\ last'.path = "preference" =>
          LET slices == last'.req.master.slices
              lang   == airplay_video[0].lang
              pos    == FirstMatchingToken(slices, lang)
              cands  == {k \in DOMAIN slices :
                            TokenMatches(slices[k].code, lang, pos)}
              first  == CHOOSE k \in cands : \A j \in cands : k <= j
          IN  airplay_video'[0].language_code = slices[first].code]_vars

\* with the list fr:en, French was chosen from a master playlist that lists
\* English before French
C24_Witness ==
    /\ last.handler = "select_master_playlist_language"
    /\ last.path = "preference"
    /\ airplay_video[0].lang = <<"f", "r", ":", "e", "n">>
    /\ Len(last.req.master.slices) >= 2
    /\ last.req.master.slices[1].code = <<"e", "n">>
    /\ last.req.master.slices[2].code = <<"f", "r">>
    /\ airplay_video[0].language_code = <<"f", "r">>

\* C25: for a master playlist whose language slices form N >= 1 groups of
\* equal size S, select_master_playlist_language returns the prelude, exactly
\* the S slices of the chosen language, and the tail; a master playlist without
\* language slices is returned unchanged.  (Stated for a session without a
\* stored language_name and a master playlist that marks a language DEFAULT,
\* where the choice of the language cannot fail.)
C25_OneLanguageKept ==
    [][SelectStep /\ airplay_video[0].language_name = << >> =>
          LET master == last'.req.master
              slices == master.slices
              out    == last'.ret
              code   == airplay_video'[0].language_code
          IN  IF slices = << >>
                THEN ~crashed' /\ out = master
                ELSE (\E k \in DOMAIN slices : slices[k].is_default) =>
                        /\ ~crashed'
                        /\ out.prelude = master.prelude
                        /\ out.tail = master.tail
                        /\ out.slices = SelectSeq(slices, LAMBDA l : l.code = code)
                        /\ Len(out.slices) * Cardinality({slices[k].code :
                                                            k \in DOMAIN slices})
                              = Len(slices)]_vars

\* the positions of data where uri_prefix occurs
Occurrences(data, uri_prefix) ==
    {k \in 1..Len(data) : OccursAt(data, uri_prefix, k)}

\* C26: for every input adjust_master_playlist gives a text whose length is
\* input_len + count x (local_len - client_len), count being the number of
\* occurrences of uri_prefix in the input, including count = 0 and prefixes
\* that overlap themselves; assert(byte_count == new_len) never fails.
C26_RewriteLengthExact ==
    [][last'.handler = "adjust_master_playlist" =>
          LET req   == last'.req
              count == Cardinality(Occurrences(req.data, req.uri_prefix))
          IN  /\ ~crashed'
              /\ last'.ret.byte_count = last'.ret.new_len
              /\ Len(last'.ret.written)
                    = Len(req.data)
                        + count * (Len(req.uri_local_prefix) - Len(req.uri_prefix))]_vars

\* C27: for every media playlist with a #YT-EXT-CONDENSED-URL header, for any
\* BASE-URI, PARAMS and PREFIX, the expanded text has the length
\* input_len + chunks x (|BASE-URI| + |PARAMS|) and
\* assert(byte_count == new_len) holds; a playlist without the header is
\* returned as it is.
C27_ExpansionLengthExact ==
    [][last'.handler = "adjust_yt_condensed_playlist" =>
          LET p == last'.req.media_playlist
          IN  IF p.condensed
                THEN /\ ~crashed'
                     /\ last'.ret.byte_count
                           = OldSize(p)
                               + p.chunks * (p.base_uri_len + ParamsLen(p))
                ELSE /\ ~crashed'
                     /\ last'.ret.copy
                     /\ last'.ret.byte_count = OldSize(p)]_vars

\* C28: GET /playback-info: when the player reports duration -1 the handler
\* marks the connection for disconnect, calls video_reset(HLS_SHUTDOWN) once
\* and returns no body; otherwise when it reports position -1 the handler
\* returns no body and calls no reset; otherwise it returns the playback-info
\* plist; in all three cases the registry, current and every session are
\* unchanged.
C28_PlaybackInfo ==
    [][last'.handler = "playback_info" =>
          /\ airplay_video' = airplay_video
          /\ current_video' = current_video
          /\ ~crashed'
          /\ IF last'.req.duration = -1
               THEN /\ last'.disconnect
                    /\ last'.video_reset = <<"HLS_SHUTDOWN">>
                    /\ last'.body.kind = "none"
             ELSE IF last'.req.position = -1
               THEN /\ ~last'.disconnect
                    /\ last'.video_reset = << >>
                    /\ last'.body.kind = "none"
             ELSE /\ ~last'.disconnect
                  /\ last'.video_reset = << >>
                  /\ last'.body = [kind |-> "playback_info", data |-> last'.req]]_vars

\* the player reported the end of the video while a session with a stored
\* master playlist was current
C28_Witness ==
    /\ last.handler = "playback_info"
    /\ last.req.duration = -1
    /\ last.video_reset = <<"HLS_SHUTDOWN">>
    /\ current_video >= 0
    /\ airplay_video[current_video] # NULL
    /\ airplay_video[current_video].has_store

\* the items of the session's store whose uri contains the url and that hold,
\* themselves or through their num, a fetched playlist
FetchedMatches(v, url) ==
    IF ~v.has_store THEN {}
    ELSE {i \in 0..(v.num_uri - 1) :
             /\ strstr(UriText(v.media_data_store[i + 1].uri), url) # 0
             /\ v.media_data_store[v.media_data_store[i + 1].num + 1].playlist # 0}

\* C29: a GET on the local HLS channel (without Upgrade header) is answered
\* 404 when there is no current session, when /master.m3u8 is asked for before
\* a master playlist is stored, or when the path matches no stored and fetched
\* media playlist; otherwise the body is the current session's master playlist
\* or the matching media playlist; the request changes no session state.
C29_LocalHls ==
    [][last'.handler = "hls" /\ ~last'.req.upgrade =>
          /\ airplay_video' = airplay_video
          /\ current_video' = current_video
          /\ ~crashed'
          /\ IF current_video = -1 THEN last'.status = 404
             ELSE LET v   == airplay_video[current_video]
                      url == last'.req.url
                  IN  IF url = MasterUrl
                        THEN IF v.master_playlist = << >>
                               THEN last'.status = 404
                               ELSE /\ last'.status = 200
                                    /\ last'.body = [kind |-> "master",
                                                     data |-> v.master_playlist[1]]
                      ELSE IF FetchedMatches(v, url) = {}
                        THEN last'.status = 404
                        ELSE /\ last'.status = 200
                             /\ last'.body.kind = "media"
                             /\ \E i \in FetchedMatches(v, url) :
                                   last'.body.data
                                     = v.media_data_store[
                                          v.media_data_store[i + 1].num + 1].playlist]_vars

\* the stored sessions that have the playback_uuid
SessionsOf(uuid) ==
    {i \in Slots : airplay_video[i] # NULL /\ airplay_video[i].playback_uuid = uuid}

\* the threads that are between taking and releasing the registry's mutex
InRegistry == {t \in Threads : thread[t].pc \in {"lookup", "store", "unlock"}}

HeldBy(t) == {m \in {"lvl_mutex", "cb_mutex"} : logger[m] = t}

\* the thread can take its next step
CanStep(t) ==
    \/ logger.at[t].pc = "idle" /\ logger.calls < MaxLoggerCalls
    \/ logger.at[t].pc \notin {"idle", "lock", "cb_lock"}
    \/ /\ logger.at[t].pc = "lock"
       /\ logger[IF logger.at[t].op = "set_callback" THEN "cb_mutex"
                 ELSE "lvl_mutex"] = 0
    \/ logger.at[t].pc = "cb_lock" /\ logger.cb_mutex = 0

\* C31: the level mutex and the callback mutex of the logger are independent:
\* no thread holds both at once, a thread that has returned from its logger
\* operation holds none, some thread can always take a step unless every
\* thread has returned from its last operation (or the process was aborted by
\* the assertion of logger_log), and while a thread runs the log callback the
\* level mutex is not held by it, so logger_set_level and logger_get_level
\* wait only for each other's short critical sections.
C31_LoggerMutexes ==
    /\ \A t \in LoggerThreads :
          /\ Cardinality(HeldBy(t)) <= 1
          /\ logger.at[t].pc = "idle" => HeldBy(t) = {}
          /\ logger.at[t].pc \in {"callback", "cb_unlock"}
                => /\ logger.cb_mutex = t
                   /\ logger.lvl_mutex # t
          /\ logger.lvl_mutex = t
                => logger.at[t].pc \in {"write", "read", "unlock", "check"}
    /\ ~crashed
          => \/ \E t \in LoggerThreads : CanStep(t)
             \/ /\ logger.calls = MaxLoggerCalls
                /\ \A t \in LoggerThreads : logger.at[t].pc = "idle"

\* a thread sets the level while another thread is inside the log callback
C31_Witness ==
    \E t1, t2 \in LoggerThreads :
        /\ logger.at[t1].op = "log" /\ logger.at[t1].pc = "cb_unlock"
        /\ logger.callback = 1
        /\ logger.at[t2].op = "set_level" /\ logger.at[t2].pc = "unlock"
        /\ logger.lvl_mutex = t2 /\ logger.cb_mutex = t1

\* POST /action has processed an unhandledURLResponse for the current session
ResponseProcessedStep ==
    /\ last'.handler = "action"
    /\ last'.path \in {"master", "media"}
    /\ ~crashed'

C33_CorrelatedByRequestID ==
    [][(/\ last'.handler = "action"
        /\ last'.path = "media"
        /\ last'.ret = 0
        /\ ~crashed')
          => last'.req.request_id = airplay_video[current_video].FCUP_RequestID]_vars

\* C34: store_media_playlist classifies in this order: an index outside
\* [0, num_uri) gives out_of_range (-1); else an item whose playlist is set
\* gives already_stored (-2); else an item whose uri is that of an earlier item
\* gives duplicate (1); else the playlist and its duration are stored and the
\* result is stored (0). On out_of_range and already_stored the media store is
\* unchanged.
C34_StoreClassification ==
    [][last'.handler = "store_media_playlist" =>
          LET v   == airplay_video[0]
              num == last'.req.num
              w   == airplay_video'[0]
          IN  /\ ~crashed'
              /\ IF num < 0 \/ num >= v.num_uri
                   THEN last'.ret = -1 /\ w = v
                 ELSE IF v.media_data_store[num + 1].playlist # 0
                   THEN last'.ret = -2 /\ w = v
                 ELSE IF SameUriBefore(v, num) # {}
                   THEN last'.ret = 1
                 ELSE /\ last'.ret = 0
                      /\ w.media_data_store[num + 1].playlist
                            = last'.req.media_playlist
                      /\ w.media_data_store[num + 1].duration
                            = analyze_media_playlist(last'.req.media_playlist)]_vars

\* the entries of the array in which both the name and the language code are
\* strings
CompleteOptions(array) ==
    {k \in DOMAIN array : array[k].name # << >> /\ array[k].code # << >>}

\* C35: PUT /setProperty?selectedMediaArray (a binary plist with an array)
\* stores on the current session the name and the language code of one and
\* the same entry of the array, the first one in which both are strings; when
\* no entry has both, language_name and language_code of the session are
\* unchanged.
C35_SelectedMediaEntry ==
    [][(/\ last'.handler = "set_property"
        /\ last'.req.property = "selectedMediaArray"
        /\ last'.req.binary_plist /\ last'.req.is_array
        /\ current_video >= 0)
          => LET array == last'.req.value
                 v     == airplay_video[current_video]
                 w     == airplay_video'[current_video]
             IN  /\ ~crashed'
                 /\ IF CompleteOptions(array) = {}
                      THEN w = v
                      ELSE \E k \in CompleteOptions(array) :
                              /\ \A h \in CompleteOptions(array) : k <= h
                              /\ w = [v EXCEPT !.language_name = array[k].name,
                                               !.language_code = array[k].code]]_vars

\* C36: PUT /setProperty for reverseEndTime, forwardEndTime or actionAtItemEnd
\* is accepted in every state of the registry, also without a current session:
\* the response is the plist {errorCode: 0} and the registry, current and every
\* session are unchanged.
C36_UnhandledPropertyNoOp ==
    [][(/\ last'.handler = "set_property"
        /\ last'.req.property \in {"reverseEndTime", "forwardEndTime",
                                   "actionAtItemEnd"})
          => /\ ~crashed'
             /\ last'.status = 200
             /\ last'.body = [kind |-> "plist", errorCode |-> 0]
             /\ airplay_video' = airplay_video
             /\ current_video' = current_video]_vars

\* C37: at every handler boundary current_video is in [-1, 9] and, when it is
\* not -1, the slot of the registry at that index holds a session, so the
\* assertion of hls_get_current_video never fails: neither the pruning nor
\* the eviction of POST /play, nor a playlistRemove, leaves current_video at an
\* emptied slot.
C37_CurrentIsStored ==
    /\ current_video \in -1..(MAX_AIRPLAY_VIDEO - 1)
    /\ current_video # -1 => airplay_video[current_video] # NULL

\* a POST /play has pruned the session that was current, and the session it
\* made current is stored
C37_Witness ==
    /\ last.handler = "play"
    /\ last.current_before \in last.pruned
    /\ ~crashed
    /\ current_video = last.slot
    /\ airplay_video[current_video] # NULL

\* C38: after every POST /play that created a session the registry holds at
\* most 9 sessions (at least one slot is empty), so the assertions
\* count < MAX_AIRPLAY_VIDEO and id >= 0 of the next POST /play never fail: no
\* POST /play aborts the process.
C38_OneSlotEmpty ==
    /\ Cardinality(Occupied(airplay_video)) <= MAX_AIRPLAY_VIDEO - 1
    /\ last.handler = "play" => ~crashed

\* the eleventh POST /play of sessions that are kept found its empty slot and
\* evicted once more
C38_Witness ==
    /\ budget.plays = 11
    /\ last.handler = "play"
    /\ last.path = "new"
    /\ last.pruned = {}
    /\ last.evicted # {}
    /\ Cardinality(Occupied(airplay_video)) = MAX_AIRPLAY_VIDEO - 1


\* C39: a POST /action that reaches a current session with no
\* X-Apple-Session-ID header, or with one that differs from the session's
\* apple_session_id as the last /play (a resume included) left it, is answered
\* 400 before its body is looked at: nothing is stored, no FCUP request is
\* issued, no player callback runs, and the registry and current_video keep
\* their values
C39_SessionIdChecked ==
    [][(/\ last'.handler = "action"
        /\ current_video >= 0
        /\ airplay_video[current_video] # NULL
        /\ \/ last'.req.session_id = 0
           \/ last'.req.session_id # airplay_video[current_video].apple_session_id)
       => /\ last'.status = 400
          /\ last'.path = "error"
          /\ last'.fcup = << >>
          /\ last'.on_video_play = << >>
          /\ last'.on_video_playlist_remove = << >>
          /\ last'.video_reset = << >>
          /\ airplay_video' = airplay_video
          /\ current_video' = current_video
          /\ ~crashed']_vars

\* an unhandledURLResponse with a complete body was refused because it carried
\* the other session ID than the one the current session holds
C39_Witness ==
    /\ last.handler = "action"
    /\ last.status = 400
    /\ current_video >= 0
    /\ airplay_video[current_video] # NULL
    /\ last.req.session_id # 0
    /\ last.req.session_id # airplay_video[current_video].apple_session_id
    /\ last.req.type = "unhandledURLResponse"
    /\ last.req.has_data


\* the duration of media item 0 as the store holds it: 0 without a store and
\* 0 until item 0 is stored
StoredDuration0(v) ==
    IF ~v.has_store \/ v.num_uri = 0 THEN 0 ELSE v.media_data_store[1].duration

\* C40: a POST /play that allocates a new session prunes exactly the stored
\* sessions whose stored duration of media item 0 is below 90 s, that duration
\* being 0 for a session without a media store or without a stored item 0; so
\* every session that has not got its first media playlist yet (a /play that
\* failed after the allocation included) is destroyed and its uuid is no
\* longer found, and the new session's master playlist is requested with
\* FCUP request ID 1
C40_PruningDuration ==
    [][(/\ last'.handler = "play"
        /\ last'.path \in {"new", "new_error"})
       => /\ last'.pruned = {i \in Occupied(airplay_video) :
                               StoredDuration0(airplay_video[i]) < 90}
          /\ \A i \in Occupied(airplay_video) :
                StoredDuration0(airplay_video[i]) = 0
                => /\ i \in last'.pruned
                   /\ get_playlist_by_uuid(airplay_video',
                                           airplay_video[i].playback_uuid) < 0
          /\ last'.path = "new"
             => /\ Len(last'.fcup) = 1
                /\ last'.fcup[1].request_id = 1]_vars
====
